---- MODULE Spec2Model ----
(***************************************************************************)
(* Autonomous operations control loop of the blockchain inventory system:  *)
(* HealingAgent (circuit breakers, failure detection, healing actions),    *)
(* MonitoringAgent (timers) and OptimizationAgent (predictions, timers).   *)
(*                                                                         *)
(* Three specifications share the module, one per agent family:            *)
(*   SpecHealth - start/stop of HealingAgent and MonitoringAgent, the      *)
(*                periodic health check and the circuit breakers;          *)
(*   SpecHeal   - detectFailures / performAutoRecovery /                   *)
(*                executeHealingAction of HealingAgent;                    *)
(*   SpecOpt    - start/stop and the prediction and reorder passes of      *)
(*                OptimizationAgent.                                       *)
(* Each leaves the variables of the others unchanged.                      *)
(***************************************************************************)
EXTENDS Integers, Sequences, FiniteSets, Bags, TLC

(***************************************************************************)
(* Bounds of the model.                                                    *)
(***************************************************************************)
\* the clock of SpecHealth stops after this many ticks
MaxTicks == 2
\* largest configured thresholds.circuitBreakerThreshold
MaxThreshold == 2
\* unhealthy probe results observed in one run
MaxUnhealthy == 2
\* start() calls of the healing agent in one run
MaxStarts == 2
\* health-check bodies in flight at once
MaxBodies == 1
\* start() calls of the optimization agent in one run
MaxOptStarts == 1
\* prediction and reorder passes of the optimization agent in one run
MaxOptPasses == 2
\* detection passes (auto-recovery cycles and detectFailures calls) begun
MaxHealPasses == 2
\* milliseconds that pass while the recovery is observed
MaxMs == 1
\* executeHealingAction calls made from outside the agent
MaxCalls == 2
\* errors thrown by the Store, the AlertSink and the primitives
MaxFaults == 2
\* failure records marked resolved
MaxResolves == 1
\* largest stock quantity calculateReorderQuantity is called with
MaxQuantity == 50
\* fraud alerts predictionEngine.detectFraud returns in one pass
MaxFraudAlerts == 2
\* detectFraud passes begun
MaxFraudPasses == 2
\* getHealthStatus calls made
MaxStatusCalls == 1
\* monitoring bodies of one concern in flight at a time
MaxMonitorBodies == 2
\* anomalies one detectAnomalies() pass may find
MaxAnomalies == 2
\* detectAnomalies() passes in one run
MaxAnomalyPasses == 1
\* nonces issued in one run
MaxNonces == 1
\* login requests in one run
MaxLogins == 2

(***************************************************************************)
(* Program constants.                                                      *)
(***************************************************************************)
\* resetTimeout handed to every CircuitBreaker, in ms
ResetTimeout == 60000

\* generateDemandPredictions keeps a prediction above this confidence, in hundredths
ConfCutoff == 70
\* generateReorderRecommendations acts on a prediction above this confidence
ReorderConfidence == 80
\* calculateReorderQuantity: lead time in days, and the days of a 30d forecast
LeadTimeDays == 7
ForecastDays == 30
\* generateCostOptimizations: an impact above this gets priority high
CostImpactCutoff == 10000

\* the clock advances in steps of half a reset timeout
TickMs == ResetTimeout \div 2

Components == <<"database", "blockchain", "api", "redis">>

ComponentSet == {Components[i] : i \in 1..Len(Components)}

MonitoringConcerns == <<"system", "blockchain", "inventory", "performance">>

VARIABLES
    \* ---- HealingAgent: lifecycle, breakers, health check
    hConfig,          \* HealingConfig: thresholds and autoHealing.enabled
    hIsRunning,       \* HealingAgent.isRunning
    hIntervals,       \* HealingAgent.intervals: one entry (its concern) per live timer
    circuitBreakers,  \* HealingAgent.circuitBreakers: component -> breaker, NoBreaker when unset
    cbEpoch,          \* how many times the breaker objects were (re)created
    now,              \* Date.now() of SpecHealth, in ms
    hcBodies,         \* bag of the health-check timer bodies in flight, each awaiting a probe
    streak,           \* consecutive unhealthy results recorded on the current breaker object
    unhealthy,        \* unhealthy probe results so far
    \* ---- MonitoringAgent: lifecycle
    mIsRunning,       \* MonitoringAgent.isRunning
    mIntervals,       \* MonitoringAgent.intervals
    \* ---- OptimizationAgent: lifecycle, prediction and reorder passes
    oConfig,          \* OptimizationConfig: thresholds and features
    oIsRunning,       \* OptimizationAgent.isRunning
    oIntervals,       \* OptimizationAgent.intervals
    oStarting,        \* start() calls awaiting predictionEngine.initialize()
    oStarts,          \* start() calls so far
    oStopReturned,    \* stop() has returned and start() was not called since
    oFiredAfterStop,  \* a timer body started while oStopReturned
    pPass,            \* the generateDemandPredictions() call in flight
    rPass,            \* the generateReorderRecommendations() call in flight
    oPasses,          \* passes begun so far
    oPredStore,       \* Store: the demand predictions persisted
    oRecStore,        \* Store: the recommendations persisted
    \* ---- HealingAgent: detection, auto-recovery, healing actions
    failureStore,     \* Store: the failure records persisted, keyed by id
    actionStore,      \* Store: the healing actions persisted, keyed by id
    hPass,            \* the detectFailures / performAutoRecovery / executeHealingAction call in flight
    hAction,          \* the HealingAction object last passed to executeHealingAction
    hPasses,          \* detection passes begun so far
    hActions,         \* action objects created so far
    hCalls,           \* executeHealingAction calls made from outside so far
    faults,           \* errors thrown so far by the Store, the AlertSink and the primitives
    resolves,         \* failure records marked resolved so far
    \* ---- a pure function called directly
    callArg,          \* the arguments of the call
    callResult,       \* its return value, once it has returned
    \* ---- OptimizationAgent: detectFraud
    fConfig,          \* features.fraudDetection
    fPass,            \* the detectFraud() call in flight
    fStore,           \* Store: the fraud recommendations persisted
    \* ---- MonitoringAgent: getHealthStatus
    sPass,            \* the getHealthStatus() call in flight
    \* ---- MonitoringAgent: the timer callbacks
    mBodies,          \* per concern, the callbacks fired and not yet settled
    \* ---- MonitoringAgent: detectAnomalies
    aPass,            \* the detectAnomalies() call in flight
    aStore,           \* Store: the anomalies persisted
    \* ---- AuthController: getNonce, login
    nStore,           \* redis: the nonce stored under each `nonce:` key
    nIssued,          \* nonces issued so far
    logins            \* the login requests, each with its position in login()

healthVars == <<hConfig, hIsRunning, hIntervals, circuitBreakers, cbEpoch, now,
                hcBodies, streak, unhealthy, mIsRunning, mIntervals>>

optVars == <<oConfig, oIsRunning, oIntervals, oStarting, oStarts, oStopReturned,
             oFiredAfterStop, pPass, rPass, oPasses, oPredStore, oRecStore>>

healVars == <<failureStore, actionStore, hPass, hAction, hPasses, hActions, hCalls,
              faults, resolves>>

callVars == <<callArg, callResult>>

fraudVars == <<fConfig, fPass, fStore>>

\* what the actions of one part leave alone
statusVars == <<sPass>>

monitorVars == <<mBodies>>

anomalyVars == <<aPass, aStore>>

authVars == <<nStore, nIssued, logins>>

exceptHealth ==
    <<optVars, healVars, callVars, fraudVars, statusVars, monitorVars, anomalyVars,
      authVars>>

exceptOpt ==
    <<healthVars, healVars, callVars, fraudVars, statusVars, monitorVars, anomalyVars,
      authVars>>

exceptHeal ==
    <<healthVars, optVars, callVars, fraudVars, statusVars, monitorVars, anomalyVars,
      authVars>>

exceptCall ==
    <<healthVars, optVars, healVars, fraudVars, statusVars, monitorVars, anomalyVars,
      authVars>>

exceptFraud ==
    <<healthVars, optVars, healVars, callVars, statusVars, monitorVars, anomalyVars,
      authVars>>

exceptStatus ==
    <<healthVars, optVars, healVars, callVars, fraudVars, monitorVars, anomalyVars,
      authVars>>

exceptMonitor ==
    <<healthVars, optVars, healVars, callVars, fraudVars, statusVars, anomalyVars,
      authVars>>

exceptAnomaly ==
    <<healthVars, optVars, healVars, callVars, fraudVars, statusVars, monitorVars,
      authVars>>

exceptAuth ==
    <<healthVars, optVars, healVars, callVars, fraudVars, statusVars, monitorVars,
      anomalyVars>>

vars ==
    <<healthVars, optVars, healVars, callVars, fraudVars, statusVars, monitorVars,
      anomalyVars, authVars>>

(***************************************************************************)
(* CircuitBreaker (utils/circuitBreaker): the class is not part of the     *)
(* sources; its state machine is the one the specification gives in 4.1.   *)
(***************************************************************************)
NoBreaker == [state |-> "none"]

\* new CircuitBreaker({failureThreshold, timeout, resetTimeout})
NewBreaker(threshold, timeout, resetTimeout) ==
    [state |-> "closed", consecutiveFailures |-> 0, openedAt |-> 0,
     failureThreshold |-> threshold, timeout |-> timeout,
     resetTimeout |-> resetTimeout]

\* open -> half-open once resetTimeout has elapsed since openedAt
Elapse(b, t) ==
    IF b.state = "open" /\ t >= b.openedAt + b.resetTimeout
    THEN [b EXCEPT !.state = "half-open"]
    ELSE b

\* canExecute(): should the guarded dependency be called
CanExecute(b) == b.state # "open"

\* recordSuccess(): half-open -> closed; the failure run ends unless the breaker is open
RecordSuccess(b, t) ==
    IF b.state = "open"
    THEN b
    ELSE [b EXCEPT !.state = "closed", !.consecutiveFailures = 0]

\* recordFailure(): closed -> open at the threshold, half-open -> open again
RecordFailure(b, t) ==
    LET n == b.consecutiveFailures + 1 IN
    Elapse(
      IF b.state = "half-open"
      THEN [b EXCEPT !.state = "open", !.openedAt = t, !.consecutiveFailures = n]
      ELSE IF b.state = "closed" /\ n >= b.failureThreshold
      THEN [b EXCEPT !.state = "open", !.openedAt = t, !.consecutiveFailures = n]
      ELSE [b EXCEPT !.consecutiveFailures = n],
      t)

(***************************************************************************)
(* HealingAgent: start, stop, health monitoring.                           *)
(***************************************************************************)
\* the breaker initializeCircuitBreakers() builds for a component (mutant: timeouts swapped)
BreakerForSwapped(cfg) ==
    NewBreaker(cfg.circuitBreakerThreshold, ResetTimeout, cfg.recoveryTimeout)

\* the breaker initializeCircuitBreakers() builds for a component
BreakerFor(cfg) ==
    NewBreaker(cfg.circuitBreakerThreshold, cfg.recoveryTimeout, ResetTimeout)

\* initializeCircuitBreakers(): a fresh breaker for each of the four components
InitializeCircuitBreakers(cfg) == [c \in ComponentSet |-> BreakerFor(cfg)]

\* the timers startHealthMonitoring() and startAutoRecovery() push
HealingTimers(cfg) ==
    <<"healthCheck">> \o (IF cfg.autoHealingEnabled THEN <<"autoRecovery">> ELSE <<>>)

\* stop() (mutant: isRunning cleared, the timers kept)
HStopKeepsTimers ==
    /\ hIsRunning
    /\ hIsRunning' = FALSE
    /\ UNCHANGED hIntervals

\* stop(): clearInterval on every timer, intervals = []
HStopBody ==
    /\ hIsRunning
    /\ hIsRunning' = FALSE
    /\ hIntervals' = <<>>

\* the bodies in flight once the breaker objects are replaced: a body awaiting its
\* probe keeps the breaker object it fetched, which is no longer the agent's
Orphaned(bodies) ==
    LET stale(b) == [b EXCEPT !.stale = TRUE]
        targets == {stale(b) : b \in BagToSet(bodies)}
    IN [t \in targets |->
          CopiesIn([t EXCEPT !.stale = FALSE], bodies) + CopiesIn(t, bodies)]

\* HealingAgent.start(): no-op when running, else breakers are rebuilt and timers pushed
HStart ==
    /\ IF hIsRunning
       THEN UNCHANGED <<hIsRunning, hIntervals, circuitBreakers, cbEpoch, hcBodies, streak>>
       ELSE /\ cbEpoch < MaxStarts
            /\ hIsRunning' = TRUE
            /\ circuitBreakers' = InitializeCircuitBreakers(hConfig)
            /\ cbEpoch' = cbEpoch + 1
            /\ streak' = [c \in ComponentSet |-> 0]
            /\ hcBodies' = Orphaned(hcBodies)
            /\ hIntervals' = hIntervals \o HealingTimers(hConfig)
    /\ UNCHANGED <<hConfig, now, unhealthy, mIsRunning, mIntervals>>
    /\ UNCHANGED exceptHealth

\* HealingAgent.stop(): no-op when stopped
HStop ==
    /\ IF hIsRunning THEN HStopBody ELSE UNCHANGED <<hIsRunning, hIntervals>>
    /\ UNCHANGED <<hConfig, circuitBreakers, cbEpoch, now, hcBodies, streak,
                   unhealthy, mIsRunning, mIntervals>>
    /\ UNCHANGED exceptHealth

\* the setInterval callback of startHealthMonitoring fires: performHealthCheck begins
\* with the first component, whose breaker it fetches before awaiting the probe
HealthCheckFire ==
    /\ \E k \in 1..Len(hIntervals) : hIntervals[k] = "healthCheck"
    /\ BagCardinality(hcBodies) < MaxBodies
    /\ hcBodies' = hcBodies (+) SetToBag({[idx |-> 1, stale |-> FALSE]})
    /\ UNCHANGED <<hConfig, hIsRunning, hIntervals, circuitBreakers, cbEpoch, now,
                   streak, unhealthy, mIsRunning, mIntervals>>
    /\ UNCHANGED exceptHealth

\* checkComponentHealth(component): what the probe can answer
ProbeResults(component) == IF component = "redis" THEN {TRUE} ELSE {TRUE, FALSE}

\* performHealthCheck, lines 271-275 (mutant: the branches inverted)
RecordOutcomeInverted(b, isHealthy, t) ==
    IF isHealthy THEN RecordFailure(b, t) ELSE RecordSuccess(b, t)

\* performHealthCheck, lines 271-275 (mutant: a failure is recorded in the else
\* branch and once more by the catch block)
RecordOutcomeTwice(b, isHealthy, t) ==
    IF isHealthy THEN RecordSuccess(b, t) ELSE RecordFailure(RecordFailure(b, t), t)

\* performHealthCheck, lines 271-275: success or failure goes to the breaker
RecordOutcome(b, isHealthy, t) ==
    IF isHealthy THEN RecordSuccess(b, t) ELSE RecordFailure(b, t)

\* the awaited probe of a body resolves: the result is recorded on the breaker the
\* body fetched, and the loop moves to the next component
HealthCheckResolve(body, isHealthy) ==
    LET c == Components[body.idx]
        rest == hcBodies (-) SetToBag({body})
    IN
    /\ BagIn(body, hcBodies)
    /\ isHealthy \in ProbeResults(c)
    /\ isHealthy \/ unhealthy < MaxUnhealthy
    /\ unhealthy' = IF isHealthy THEN unhealthy ELSE unhealthy + 1
    /\ IF body.stale \/ circuitBreakers[c] = NoBreaker
       THEN UNCHANGED <<circuitBreakers, streak>>
       ELSE /\ circuitBreakers' =
                 [circuitBreakers EXCEPT ![c] = RecordOutcome(@, isHealthy, now)]
            /\ streak' = [streak EXCEPT ![c] = IF isHealthy THEN 0 ELSE @ + 1]
    /\ hcBodies' = IF body.idx < Len(Components)
                   THEN rest (+) SetToBag({[idx |-> body.idx + 1, stale |-> FALSE]})
                   ELSE rest
    /\ UNCHANGED <<hConfig, hIsRunning, hIntervals, cbEpoch, now, mIsRunning, mIntervals>>
    /\ UNCHANGED exceptHealth

\* time passes; breakers whose reset timeout has elapsed become half-open
Tick ==
    /\ now < MaxTicks * TickMs
    /\ now' = now + TickMs
    /\ circuitBreakers' = [c \in ComponentSet |->
                             IF circuitBreakers[c] = NoBreaker THEN NoBreaker
                             ELSE Elapse(circuitBreakers[c], now')]
    /\ UNCHANGED <<hConfig, hIsRunning, hIntervals, cbEpoch, hcBodies, streak,
                   unhealthy, mIsRunning, mIntervals>>
    /\ UNCHANGED exceptHealth

(***************************************************************************)
(* MonitoringAgent: start, stop.                                           *)
(***************************************************************************)
\* MonitoringAgent.start(): no-op when running, else one timer per concern
MStart ==
    /\ IF mIsRunning
       THEN UNCHANGED <<mIsRunning, mIntervals>>
       ELSE /\ mIsRunning' = TRUE
            /\ mIntervals' = mIntervals \o MonitoringConcerns
    /\ UNCHANGED <<hConfig, hIsRunning, hIntervals, circuitBreakers, cbEpoch, now,
                   hcBodies, streak, unhealthy>>
    /\ UNCHANGED exceptHealth

\* MonitoringAgent.stop(): no-op when stopped, else every timer is cleared
MStop ==
    /\ IF mIsRunning
       THEN /\ mIsRunning' = FALSE
            /\ mIntervals' = <<>>
       ELSE UNCHANGED <<mIsRunning, mIntervals>>
    /\ UNCHANGED <<hConfig, hIsRunning, hIntervals, circuitBreakers, cbEpoch, now,
                   hcBodies, streak, unhealthy>>
    /\ UNCHANGED exceptHealth

(***************************************************************************)
(* MonitoringAgent: the timer callbacks.                                   *)
(***************************************************************************)
MonitoringConcernSet == {MonitoringConcerns[k] : k \in 1..Len(MonitoringConcerns)}

\* no callback has fired
MonitorIdle == mBodies = [concern \in MonitoringConcernSet |-> 0]

\* the setInterval callback of a concern fires: its perform...HealthCheck() is called
\* and awaits its first external call; setInterval does not wait for earlier
\* callbacks of the timer to settle
MonitorFire(concern) ==
    /\ \E k \in 1..Len(mIntervals) : mIntervals[k] = concern
    /\ mBodies[concern] < MaxMonitorBodies
    /\ mBodies' = [mBodies EXCEPT ![concern] = @ + 1]
    /\ UNCHANGED exceptMonitor

\* the awaited calls of one callback have resolved, or thrown into its catch: the
\* callback settles
MonitorSettle(concern) ==
    /\ mBodies[concern] > 0
    /\ mBodies' = [mBodies EXCEPT ![concern] = @ - 1]
    /\ UNCHANGED exceptMonitor

MonitorNext ==
    \/ MStart
    \/ MStop
    \/ \E concern \in MonitoringConcernSet : MonitorFire(concern)
    \/ \E concern \in MonitoringConcernSet : MonitorSettle(concern)

(***************************************************************************)
(* OptimizationAgent: start, stop, timers.                                 *)
(***************************************************************************)
OptimizationConcerns == <<"prediction", "analysis", "recommendation">>

\* OptimizationAgent.start() up to its await: no-op when running, else isRunning is
\* set and the call waits for predictionEngine.initialize()
OStartCall ==
    /\ oStarts < MaxOptStarts
    /\ oStarts' = oStarts + 1
    /\ oStopReturned' = FALSE
    /\ IF oIsRunning
       THEN UNCHANGED <<oIsRunning, oStarting>>
       ELSE /\ oIsRunning' = TRUE
            /\ oStarting' = oStarting + 1
    /\ UNCHANGED <<oConfig, oIntervals, oFiredAfterStop, pPass, rPass, oPasses,
                   oPredStore, oRecStore>>
    /\ UNCHANGED exceptOpt

\* start() after initialize() resolved: the three loops are scheduled
OStartResume ==
    /\ oStarting > 0
    /\ oStarting' = oStarting - 1
    /\ oIntervals' = oIntervals \o OptimizationConcerns
    /\ UNCHANGED <<oConfig, oIsRunning, oStarts, oStopReturned, oFiredAfterStop, pPass,
                   rPass, oPasses, oPredStore, oRecStore>>
    /\ UNCHANGED exceptOpt

\* start() after initialize() rejected: the error is logged and rethrown
OStartFail ==
    /\ oStarting > 0
    /\ oStarting' = oStarting - 1
    /\ UNCHANGED <<oConfig, oIsRunning, oIntervals, oStarts, oStopReturned,
                   oFiredAfterStop, pPass, rPass, oPasses, oPredStore, oRecStore>>
    /\ UNCHANGED exceptOpt

\* OptimizationAgent.stop(): no-op when stopped, else every timer is cleared
OStop ==
    /\ oStopReturned' = TRUE
    /\ IF oIsRunning
       THEN /\ oIsRunning' = FALSE
            /\ oIntervals' = <<>>
       ELSE UNCHANGED <<oIsRunning, oIntervals>>
    /\ UNCHANGED <<oConfig, oStarting, oStarts, oFiredAfterStop, pPass, rPass, oPasses,
                   oPredStore, oRecStore>>
    /\ UNCHANGED exceptOpt

(***************************************************************************)
(* OptimizationAgent.generateDemandPredictions().                          *)
(***************************************************************************)
\* databaseService.getInventoryForPrediction() / getLowStockItems(): the items on stock
Inventory ==
    <<[sku |-> "A", quantity |-> 5, unitCost |-> 2],
      [sku |-> "B", quantity |-> 25, unitCost |-> 3]>>

Null == [value |-> -1, confidence |-> -1]

\* what predictionEngine.predictDemand(item) can resolve to: nothing, or a 30-day
\* demand with a confidence in hundredths
EngineResults ==
    {Null} \cup [value : {90},
                 confidence : {65, ConfCutoff, ConfCutoff + 1, ReorderConfidence, 85}]

\* line 132 (mutant: the cutoff itself is kept)
KeepPredictionAtCutoff(result) ==
    result # Null /\ result.confidence >= ConfCutoff

\* line 132: prediction && prediction.confidence > 0.7
KeepPrediction(result) ==
    result # Null /\ result.confidence > ConfCutoff

\* lines 133-142: the Prediction built from an engine result
PredictionOf(item, result) ==
    [target |-> item.sku, prediction |-> result.value, confidence |-> result.confidence]

IdlePrediction ==
    [pc |-> "idle", idx |-> 0, predictions |-> <<>>, seen |-> <<>>,
     written |-> {}, failed |-> FALSE]

\* generateDemandPredictions() is entered and awaits the inventory
PredictBegin ==
    /\ pPass.pc \in {"idle", "done"}
    /\ oPasses < MaxOptPasses
    /\ oPasses' = oPasses + 1
    /\ pPass' = [IdlePrediction EXCEPT !.pc = "inventory"]

\* the pass is called directly
PredictCall ==
    /\ PredictBegin
    /\ UNCHANGED <<oConfig, oIsRunning, oIntervals, oStarting, oStarts, oStopReturned,
                   oFiredAfterStop, rPass, oPredStore, oRecStore>>
    /\ UNCHANGED exceptOpt

\* getInventoryForPrediction() resolves, or rejects (mutant: the rejection escapes
\* the callback and takes the agent's timers down)
PredictInventoryStopsAgent(ok) ==
    /\ pPass.pc = "inventory"
    /\ pPass' = IF ok
                THEN [pPass EXCEPT !.pc = "predict", !.idx = 1]
                ELSE [pPass EXCEPT !.pc = "done", !.failed = TRUE]
    /\ oIsRunning' = (ok /\ oIsRunning)
    /\ oIntervals' = IF ok THEN oIntervals ELSE <<>>
    /\ UNCHANGED <<oConfig, oStarting, oStarts, oStopReturned,
                   oFiredAfterStop, rPass, oPasses, oPredStore, oRecStore>>
    /\ UNCHANGED exceptOpt

\* getInventoryForPrediction() resolves, or rejects (then the catch returns [])
PredictInventory(ok) ==
    /\ pPass.pc = "inventory"
    /\ pPass' = IF ok
                THEN [pPass EXCEPT !.pc = "predict", !.idx = 1]
                ELSE [pPass EXCEPT !.pc = "done", !.failed = TRUE]
    /\ UNCHANGED <<oConfig, oIsRunning, oIntervals, oStarting, oStarts, oStopReturned,
                   oFiredAfterStop, rPass, oPasses, oPredStore, oRecStore>>
    /\ UNCHANGED exceptOpt

\* the pass after the prediction loop: the store loop, or the return when nothing is kept
AfterPredictLoop(pass) ==
    IF Len(pass.predictions) = 0
    THEN [pass EXCEPT !.pc = "done"]
    ELSE [pass EXCEPT !.pc = "store", !.idx = 1]

\* predictDemand(item) resolves for the current item
PredictDemand(result) ==
    LET item == Inventory[pPass.idx]
        kept == IF KeepPrediction(result)
                THEN Append(pPass.predictions, PredictionOf(item, result))
                ELSE pPass.predictions
        next == [pPass EXCEPT !.predictions = kept, !.seen = Append(@, result)]
    IN
    /\ pPass.pc = "predict"
    /\ pPass' = IF pPass.idx < Len(Inventory)
                THEN [next EXCEPT !.idx = @ + 1]
                ELSE AfterPredictLoop(next)
    /\ UNCHANGED <<oConfig, oIsRunning, oIntervals, oStarting, oStarts, oStopReturned,
                   oFiredAfterStop, rPass, oPasses, oPredStore, oRecStore>>
    /\ UNCHANGED exceptOpt

\* predictDemand(item) rejects: the outer catch ends the pass, the store loop is skipped
PredictDemandThrows ==
    /\ pPass.pc = "predict"
    /\ pPass' = [pPass EXCEPT !.pc = "done", !.failed = TRUE]
    /\ UNCHANGED <<oConfig, oIsRunning, oIntervals, oStarting, oStarts, oStopReturned,
                   oFiredAfterStop, rPass, oPasses, oPredStore, oRecStore>>
    /\ UNCHANGED exceptOpt

\* storePrediction(prediction): the write succeeds, or fails and is only logged
StorePrediction(ok) ==
    LET p == pPass.predictions[pPass.idx]
        next == IF ok
                THEN [pPass EXCEPT !.written = @ \cup {p}]
                ELSE [pPass EXCEPT !.failed = TRUE]
    IN
    /\ pPass.pc = "store"
    /\ oPredStore' = IF ok THEN oPredStore \cup {p} ELSE oPredStore
    /\ pPass' = IF pPass.idx < Len(pPass.predictions)
                THEN [next EXCEPT !.idx = @ + 1]
                ELSE [next EXCEPT !.pc = "done"]
    /\ UNCHANGED <<oConfig, oIsRunning, oIntervals, oStarting, oStarts, oStopReturned,
                   oFiredAfterStop, rPass, oPasses, oRecStore>>
    /\ UNCHANGED exceptOpt

(***************************************************************************)
(* OptimizationAgent.generateReorderRecommendations().                     *)
(***************************************************************************)
NoPrediction == [target |-> "", prediction |-> -1, confidence |-> -1]

\* databaseService.getLowStockItems(threshold): the items whose quantity is below it
LowStockItems(threshold) ==
    SelectSeq(Inventory, LAMBDA item : item.quantity < threshold)

\* calculateReorderQuantity without Math.max (mutant)
ReorderQuantityUnclamped(item, prediction, reorderPoint) ==
    LeadTimeDays * prediction.prediction + ForecastDays * (reorderPoint - item.quantity)

\* calculateReorderQuantity(item, prediction), times ForecastDays to stay in integers:
\* max(0, (prediction / 30) * 7 + reorderPoint - quantity)
ReorderQuantity30(item, prediction, reorderPoint) ==
    LET q == LeadTimeDays * prediction.prediction
               + ForecastDays * (reorderPoint - item.quantity)
    IN IF q > 0 THEN q ELSE 0

\* line 285 (mutant: a confidence of exactly 0.8 is acted on)
ActsOnAtThreshold(prediction) ==
    prediction # NoPrediction /\ prediction.confidence >= ReorderConfidence

\* line 285: prediction && prediction.confidence > 0.8
ActsOn(prediction) ==
    prediction # NoPrediction /\ prediction.confidence > ReorderConfidence

\* lines 288-310: the reorder Recommendation of an item
RecommendationOf(item, prediction, cfg) ==
    [type |-> "reorder",
     sku |-> item.sku,
     priority |-> IF item.quantity < cfg.reorderPoint THEN "high" ELSE "medium",
     confidence |-> prediction.confidence,
     recommendedOrder30 |-> ReorderQuantity30(item, prediction, cfg.reorderPoint)]

\* predictions.find(p => p.target === item.sku && p.type === 'demand'): the first match
\* in the order the store returned the rows, which the agent does not control
FirstMatches(predictions, sku) ==
    LET matches == {q \in predictions : q.target = sku}
    IN IF matches = {} THEN {NoPrediction} ELSE matches

\* lines 282-312: the recommendations of the low-stock items, given each item's match
RECURSIVE Recommendations(_, _, _)
Recommendations(items, pick, cfg) ==
    IF Len(items) = 0 THEN <<>>
    ELSE LET item == Head(items)
             rest == Recommendations(Tail(items), pick, cfg)
         IN IF ActsOn(pick[item.sku])
            THEN <<RecommendationOf(item, pick[item.sku], cfg)>> \o rest
            ELSE rest

IdleReorder ==
    [pc |-> "idle", idx |-> 0, items |-> <<>>, recommendations |-> <<>>]

Skus == {Inventory[i].sku : i \in 1..Len(Inventory)}

\* generateReorderRecommendations() is entered: it returns [] at once when demand
\* forecasting is off, else it awaits the low-stock items
ReorderBegin ==
    /\ rPass.pc \in {"idle", "done"}
    /\ oPasses < MaxOptPasses
    /\ oPasses' = oPasses + 1
    /\ rPass' = IF oConfig.demandForecasting
                THEN [IdleReorder EXCEPT !.pc = "lowstock"]
                ELSE [IdleReorder EXCEPT !.pc = "done"]

\* the pass is called directly
ReorderCall ==
    /\ ReorderBegin
    /\ UNCHANGED <<oConfig, oIsRunning, oIntervals, oStarting, oStarts, oStopReturned,
                   oFiredAfterStop, pPass, oPredStore, oRecStore>>
    /\ UNCHANGED exceptOpt

\* getLowStockItems() resolves, or rejects (then the catch returns [])
ReorderLowStock(ok) ==
    /\ rPass.pc = "lowstock"
    /\ rPass' = IF ok
                THEN [rPass EXCEPT !.pc = "predictions",
                                   !.items = LowStockItems(oConfig.lowStockThreshold)]
                ELSE [rPass EXCEPT !.pc = "done"]
    /\ UNCHANGED <<oConfig, oIsRunning, oIntervals, oStarting, oStarts, oStopReturned,
                   oFiredAfterStop, pPass, oPasses, oPredStore, oRecStore>>
    /\ UNCHANGED exceptOpt

\* getDemandPredictions() resolves with the stored predictions, or with [] when the
\* store rejects; the loop over the items then runs without awaiting
ReorderPredictions(ok) ==
    LET predictions == IF ok THEN oPredStore ELSE {} IN
    /\ rPass.pc = "predictions"
    /\ \E pick \in [Skus -> predictions \cup {NoPrediction}] :
         /\ \A sku \in Skus : pick[sku] \in FirstMatches(predictions, sku)
         /\ LET recs == Recommendations(rPass.items, pick, oConfig) IN
            rPass' = IF Len(recs) = 0
                     THEN [rPass EXCEPT !.pc = "done"]
                     ELSE [rPass EXCEPT !.pc = "store", !.idx = 1,
                                        !.recommendations = recs]
    /\ UNCHANGED <<oConfig, oIsRunning, oIntervals, oStarting, oStarts, oStopReturned,
                   oFiredAfterStop, pPass, oPasses, oPredStore, oRecStore>>
    /\ UNCHANGED exceptOpt

\* storeRecommendation(recommendation): the write succeeds, or fails and is only logged
StoreRecommendation(ok) ==
    LET r == rPass.recommendations[rPass.idx] IN
    /\ rPass.pc = "store"
    /\ oRecStore' = IF ok THEN oRecStore \cup {r} ELSE oRecStore
    /\ rPass' = IF rPass.idx < Len(rPass.recommendations)
                THEN [rPass EXCEPT !.idx = @ + 1]
                ELSE [rPass EXCEPT !.pc = "done"]
    /\ UNCHANGED <<oConfig, oIsRunning, oIntervals, oStarting, oStarts, oStopReturned,
                   oFiredAfterStop, pPass, oPasses, oPredStore>>
    /\ UNCHANGED exceptOpt

(***************************************************************************)
(* OptimizationAgent: the timer callbacks.                                 *)
(***************************************************************************)
HasTimer(intervals, concern) ==
    \E k \in 1..Len(intervals) : intervals[k] = concern

\* the callback of startPredictionLoop fires: generateDemandPredictions() begins
PredictionFire ==
    /\ HasTimer(oIntervals, "prediction")
    /\ oFiredAfterStop' = (oFiredAfterStop \/ oStopReturned)
    /\ PredictBegin
    /\ UNCHANGED <<oConfig, oIsRunning, oIntervals, oStarting, oStarts, oStopReturned,
                   rPass, oPredStore, oRecStore>>
    /\ UNCHANGED exceptOpt

\* the callback of startAnalysisLoop fires: performSystemAnalysis() only logs
AnalysisFire ==
    /\ HasTimer(oIntervals, "analysis")
    /\ oFiredAfterStop' = (oFiredAfterStop \/ oStopReturned)
    /\ UNCHANGED <<oConfig, oIsRunning, oIntervals, oStarting, oStarts, oStopReturned,
                   pPass, rPass, oPasses, oPredStore, oRecStore>>
    /\ UNCHANGED exceptOpt

\* the callback of startRecommendationLoop fires: generateAllRecommendations() begins
\* with generateReorderRecommendations()
RecommendationFire ==
    /\ HasTimer(oIntervals, "recommendation")
    /\ oFiredAfterStop' = (oFiredAfterStop \/ oStopReturned)
    /\ ReorderBegin
    /\ UNCHANGED <<oConfig, oIsRunning, oIntervals, oStarting, oStarts, oStopReturned,
                   pPass, oPredStore, oRecStore>>
    /\ UNCHANGED exceptOpt

(***************************************************************************)
(* HealingAgent: failure detection, persistence, alerting, auto-recovery   *)
(* and the execution of healing actions.                                   *)
(***************************************************************************)
\* healthy answers of the five metric sources of one detection pass
Normal ==
    [serviceError |-> FALSE, running |-> TRUE, serviceCpu |-> 50, serviceMemory |-> 50,
     dbError |-> FALSE, connections |-> 50, maxConnections |-> 100, queryTime |-> 100,
     bcError |-> FALSE, blockDelay |-> 10, failedTransactions |-> 0,
     networkError |-> FALSE, packetLoss |-> 0, latency |-> 100,
     resourceError |-> FALSE, cpu |-> 50, memory |-> 50, disk |-> 50]

\* the answers a pass may get: cpu, connections and latency high together; memory
\* critical; a stopped service with the database unreachable;
\* medium conditions only; all healthy
Snapshots ==
    { [Normal EXCEPT !.cpu = 95, !.connections = 95, !.latency = 1500],
      [Normal EXCEPT !.memory = 95],
      [Normal EXCEPT !.running = FALSE, !.dbError = TRUE],
      [Normal EXCEPT !.queryTime = 6000, !.packetLoss = 6],
      Normal }

\* a Failure as the detectors build it; its id is `${kind}-${Date.now()}`
Failure(kind, component, type, severity, description, t) ==
    [id |-> <<kind, t>>, kind |-> kind, component |-> component, type |-> type,
     severity |-> severity, description |-> description, resolved |-> FALSE]

\* one element when the condition holds, none otherwise
When(cond, failure) == IF cond THEN <<failure>> ELSE <<>>

\* detectServiceFailures, for the one service "api"; a failing source yields nothing
DetectServiceFailures(m, t) ==
    IF m.serviceError THEN <<>>
    ELSE When(~m.running \/ m.serviceCpu > 90 \/ m.serviceMemory > 90,
              Failure("service-api", "api", "service",
                      IF m.running THEN "medium" ELSE "critical",
                      IF m.running THEN "Service api high resource usage"
                                   ELSE "Service api is not running", t))

\* detectDatabaseFailures; a failing source is itself a critical failure
DetectDatabaseFailures(m, t) ==
    IF m.dbError
    THEN <<Failure("db-connection", "database", "database", "critical",
                   "Database connection failed", t)>>
    ELSE When(m.connections * 10 > m.maxConnections * 9,
              Failure("db-connections", "database", "database", "high",
                      "Database connections approaching limit", t))
         \o When(m.queryTime > 5000,
                 Failure("db-performance", "database", "database", "medium",
                         "Database query performance degraded", t))

\* detectBlockchainFailures; a failing source is itself a critical failure
DetectBlockchainFailures(m, t) ==
    IF m.bcError
    THEN <<Failure("bc-connection", "blockchain", "blockchain", "critical",
                   "Blockchain connection failed", t)>>
    ELSE When(m.blockDelay > 300,
              Failure("bc-delay", "blockchain", "blockchain", "high",
                      "Blockchain block delay too high", t))
         \o When(m.failedTransactions > 10,
                 Failure("bc-failed-tx", "blockchain", "blockchain", "medium",
                         "High number of failed transactions", t))

\* detectNetworkFailures; a failing source yields nothing
DetectNetworkFailures(m, t) ==
    IF m.networkError THEN <<>>
    ELSE When(m.packetLoss > 5,
              Failure("network-loss", "network", "network", "medium",
                      "Network packet loss detected", t))
         \o When(m.latency > 1000,
                 Failure("network-latency", "network", "network", "high",
                         "High network latency detected", t))

\* detectResourceFailures with cpu >= 90 (mutant)
DetectResourceFailuresAtThreshold(m, t) ==
    IF m.resourceError THEN <<>>
    ELSE When(m.cpu >= 90,
              Failure("cpu-high", "system", "resource", "high",
                      "High CPU usage detected", t))
         \o When(m.memory > 90,
                 Failure("memory-high", "system", "resource", "critical",
                         "High memory usage detected", t))
         \o When(m.disk > 85,
                 Failure("disk-high", "system", "resource", "medium",
                         "High disk usage detected", t))

\* detectResourceFailures; a failing source yields nothing
DetectResourceFailures(m, t) ==
    IF m.resourceError THEN <<>>
    ELSE When(m.cpu > 90,
              Failure("cpu-high", "system", "resource", "high",
                      "High CPU usage detected", t))
         \o When(m.memory > 90,
                 Failure("memory-high", "system", "resource", "critical",
                         "High memory usage detected", t))
         \o When(m.disk > 85,
                 Failure("disk-high", "system", "resource", "medium",
                         "High disk usage detected", t))

\* the failures list of detectFailures, in the order the detectors are awaited
DetectAll(m, t) ==
    DetectServiceFailures(m, t) \o DetectDatabaseFailures(m, t)
    \o DetectBlockchainFailures(m, t) \o DetectNetworkFailures(m, t)
    \o DetectResourceFailures(m, t)

\* description.includes('connection') over the descriptions the detectors produce
IncludesConnection(description) ==
    description \in {"Database connection failed",
                     "Database connections approaching limit",
                     "Blockchain connection failed"}

\* the type switch of createHealingAction; its default branch takes network failures
ActionType(failure) ==
    CASE failure.type = "service" -> "restart"
      [] failure.type = "blockchain" -> "reconnect"
      [] failure.type = "database" ->
            IF IncludesConnection(failure.description) THEN "reconnect" ELSE "cleanup"
      [] failure.type = "resource" -> "scale"
      [] OTHER -> "restart"

NoAction ==
    [n |-> 0, id |-> <<"none", "none", 0>>, type |-> "none", component |-> "none",
     severity |-> "none", status |-> "none", errorMessage |-> "", owner |-> "none"]

\* createHealingAction: the n-th action object, its id `healing-${component}-${Date.now()}`
CreateHealingAction(failure, t, n) ==
    [n |-> n, id |-> <<"healing", failure.component, t>>, type |-> ActionType(failure),
     component |-> failure.component, severity |-> failure.severity,
     status |-> "pending", errorMessage |-> "", owner |-> "agent"]

IsSevere(failure) == failure.severity \in {"critical", "high"}

\* Store: insert the record, replacing the one of the same id
Upsert(store, record) == {r \in store : r.id # record.id} \cup {record}

IdlePass ==
    [pc |-> "idle", auto |-> FALSE, failures |-> <<>>, idx |-> 0, executed |-> <<>>]

Resting == {"idle", "done", "aborted"}

\* handleFailure for the i-th failure of the pass, or detectFailures returns
HandleFrom(pass, i) ==
    IF i <= Len(pass.failures)
    THEN [pass EXCEPT !.pc = "getFailure", !.idx = i]
    ELSE [pass EXCEPT !.pc = IF pass.auto THEN "recover" ELSE "done", !.idx = 0]

\* the catch of detectFailures: the error is logged and the failures are returned
DetectCatch(pass) ==
    [pass EXCEPT !.pc = IF pass.auto THEN "recover" ELSE "done", !.idx = 0]

\* an awaited call succeeds, or throws one more of the errors the run injects
Outcome(ok) ==
    IF ok THEN UNCHANGED faults ELSE faults < MaxFaults /\ faults' = faults + 1

\* the setInterval callback of startAutoRecovery fires: performAutoRecovery begins
AutoRecoveryFire ==
    /\ HasTimer(hIntervals, "autoRecovery")
    /\ hPass.pc \in Resting
    /\ hPasses < MaxHealPasses
    /\ hPass' = [IdlePass EXCEPT !.pc = "detect", !.auto = TRUE]
    /\ hPasses' = hPasses + 1
    /\ UNCHANGED <<failureStore, actionStore, hAction, hActions, hCalls>>
    /\ UNCHANGED <<faults, resolves>>
    /\ UNCHANGED exceptHeal

\* detectFailures() is called from outside the agent
DetectFailuresCall ==
    /\ hPass.pc \in Resting
    /\ hPasses < MaxHealPasses
    /\ hPass' = [IdlePass EXCEPT !.pc = "detect"]
    /\ hPasses' = hPasses + 1
    /\ UNCHANGED <<failureStore, actionStore, hAction, hActions, hCalls>>
    /\ UNCHANGED <<faults, resolves>>
    /\ UNCHANGED exceptHeal

\* the five detectors have answered m; handling of the failures begins
DetectResolve(m) ==
    /\ hPass.pc = "detect"
    /\ hPass' = HandleFrom([hPass EXCEPT !.failures = DetectAll(m, now)], 1)
    /\ UNCHANGED <<failureStore, actionStore, hAction, hPasses, hActions, hCalls>>
    /\ UNCHANGED <<faults, resolves>>
    /\ UNCHANGED exceptHeal

\* handleFailure: databaseService.getFailure(failure.id) answers or throws;
\* an unresolved record of that id ends the handling of the failure
GetFailureResolve(ok) ==
    /\ hPass.pc = "getFailure"
    /\ LET failure == hPass.failures[hPass.idx]
           existing == {r \in failureStore : r.id = failure.id}
       IN hPass' = IF ~ok THEN DetectCatch(hPass)
                   ELSE IF \E r \in existing : ~r.resolved
                        THEN HandleFrom(hPass, hPass.idx + 1)
                        ELSE [hPass EXCEPT !.pc = "storeFailure"]
    /\ UNCHANGED <<failureStore, actionStore, hAction, hPasses, hActions, hCalls>>
    /\ Outcome(ok)
    /\ UNCHANGED resolves
    /\ UNCHANGED exceptHeal

\* handleFailure: databaseService.storeFailure(failure) succeeds or throws
StoreFailureResolve(ok) ==
    /\ hPass.pc = "storeFailure"
    /\ IF ok
       THEN /\ failureStore' = Upsert(failureStore, hPass.failures[hPass.idx])
            /\ hPass' = [hPass EXCEPT !.pc = "failureAlert"]
       ELSE /\ hPass' = DetectCatch(hPass)
            /\ UNCHANGED failureStore
    /\ UNCHANGED <<actionStore, hAction, hPasses, hActions, hCalls>>
    /\ Outcome(ok)
    /\ UNCHANGED resolves
    /\ UNCHANGED exceptHeal

\* handleFailure: alertService.sendFailureAlert succeeds or throws
FailureAlertResolve(ok) ==
    /\ hPass.pc = "failureAlert"
    /\ IF ok
       THEN hPass' = HandleFrom(hPass, hPass.idx + 1)
       ELSE hPass' = DetectCatch(hPass)
    /\ UNCHANGED <<failureStore, actionStore, hAction, hPasses, hActions, hCalls>>
    /\ Outcome(ok)
    /\ UNCHANGED resolves
    /\ UNCHANGED exceptHeal

\* the loop of performAutoRecovery: the next critical or high failure gets an action,
\* which executeHealingAction marks executing before it awaits the primitive
RecoverNext ==
    /\ hPass.pc = "recover"
    /\ LET rest == {i \in (hPass.idx + 1)..Len(hPass.failures) :
                      IsSevere(hPass.failures[i])}
       IN IF rest = {}
          THEN /\ hPass' = [hPass EXCEPT !.pc = "done"]
               /\ UNCHANGED <<hAction, hActions>>
          ELSE LET i == CHOOSE j \in rest : \A k \in rest : j <= k
                   action == CreateHealingAction(hPass.failures[i], now, hActions + 1)
               IN /\ hAction' = [action EXCEPT !.status = "executing"]
                  /\ hActions' = hActions + 1
                  /\ hPass' = [hPass EXCEPT !.pc = "primitive", !.idx = i,
                                            !.executed = Append(@, i)]
    /\ UNCHANGED <<failureStore, actionStore, hPasses, hCalls>>
    /\ UNCHANGED <<faults, resolves>>
    /\ UNCHANGED exceptHeal

\* executeHealingAction(action) is called from outside with an action of the caller's
ExecuteCall(type, component) ==
    /\ hPass.pc \in Resting
    /\ hCalls < MaxCalls
    /\ hAction' = [NoAction EXCEPT !.n = hActions + 1, !.id = <<"healing", component, now>>,
                                   !.type = type, !.component = component,
                                   !.severity = "high", !.status = "executing",
                                   !.owner = "caller"]
    /\ hActions' = hActions + 1
    /\ hCalls' = hCalls + 1
    /\ hPass' = [IdlePass EXCEPT !.pc = "primitive"]
    /\ UNCHANGED <<failureStore, actionStore, hPasses>>
    /\ UNCHANGED <<faults, resolves>>
    /\ UNCHANGED exceptHeal

\* executeHealingAction is called again with the action object it returned
ExecuteAgain ==
    /\ hPass.pc \in Resting
    /\ hAction.owner = "caller"
    /\ hCalls < MaxCalls
    /\ hAction' = [hAction EXCEPT !.status = "executing"]
    /\ hCalls' = hCalls + 1
    /\ hPass' = [IdlePass EXCEPT !.pc = "primitive"]
    /\ UNCHANGED <<failureStore, actionStore, hPasses, hActions>>
    /\ UNCHANGED <<faults, resolves>>
    /\ UNCHANGED exceptHeal

\* reconnectService and cleanupResources throw for a component they do not know
PrimitiveKnown(action) ==
    CASE action.type = "reconnect" -> action.component \in {"database", "blockchain"}
      [] action.type = "cleanup" -> action.component \in {"database", "system"}
      [] OTHER -> TRUE

\* executeHealingAction (mutant: a primitive that throws raises no critical alert)
PrimitiveResolveNoAlert(ok) ==
    /\ hPass.pc = "primitive"
    /\ IF PrimitiveKnown(hAction) THEN Outcome(ok) ELSE ~ok /\ UNCHANGED faults
    /\ IF ok
       THEN /\ hAction' = [hAction EXCEPT !.status = "completed"]
            /\ hPass' = [hPass EXCEPT !.pc = "recoveryAlert"]
       ELSE /\ hAction' = [hAction EXCEPT !.status = "failed",
                                          !.errorMessage = "primitive"]
            /\ hPass' = [hPass EXCEPT !.pc = "storeAction"]
    /\ UNCHANGED <<failureStore, actionStore, hPasses, hActions, hCalls>>
    /\ UNCHANGED resolves
    /\ UNCHANGED exceptHeal

\* executeHealingAction: the primitive of the action type resolves or throws
PrimitiveResolve(ok) ==
    /\ hPass.pc = "primitive"
    /\ IF PrimitiveKnown(hAction) THEN Outcome(ok) ELSE ~ok /\ UNCHANGED faults
    /\ IF ok
       THEN /\ hAction' = [hAction EXCEPT !.status = "completed"]
            /\ hPass' = [hPass EXCEPT !.pc = "recoveryAlert"]
       ELSE /\ hAction' = [hAction EXCEPT !.status = "failed",
                                          !.errorMessage = "primitive"]
            /\ hPass' = [hPass EXCEPT !.pc = "criticalAlert"]
    /\ UNCHANGED <<failureStore, actionStore, hPasses, hActions, hCalls>>
    /\ UNCHANGED resolves
    /\ UNCHANGED exceptHeal

\* executeHealingAction: sendRecoveryAlert resolves, or throws into the catch
RecoveryAlertResolve(ok) ==
    /\ hPass.pc = "recoveryAlert"
    /\ IF ok
       THEN /\ hPass' = [hPass EXCEPT !.pc = "storeAction"]
            /\ UNCHANGED hAction
       ELSE /\ hAction' = [hAction EXCEPT !.status = "failed",
                                          !.errorMessage = "recoveryAlert"]
            /\ hPass' = [hPass EXCEPT !.pc = "criticalAlert"]
    /\ UNCHANGED <<failureStore, actionStore, hPasses, hActions, hCalls>>
    /\ Outcome(ok)
    /\ UNCHANGED resolves
    /\ UNCHANGED exceptHeal

\* executeHealingAction: sendCriticalAlert in the catch resolves, or throws and the
\* call rejects, which ends the loop of performAutoRecovery
CriticalAlertResolve(ok) ==
    /\ hPass.pc = "criticalAlert"
    /\ hPass' = [hPass EXCEPT !.pc = IF ok THEN "storeAction" ELSE "aborted"]
    /\ UNCHANGED <<failureStore, actionStore, hAction, hPasses, hActions, hCalls>>
    /\ Outcome(ok)
    /\ UNCHANGED resolves
    /\ UNCHANGED exceptHeal

\* storeHealingAction: the write succeeds, or fails and is logged; the call returns
StoreActionResolve(ok) ==
    /\ hPass.pc = "storeAction"
    /\ actionStore' = IF ok THEN Upsert(actionStore, hAction) ELSE actionStore
    /\ hPass' = [hPass EXCEPT !.pc = IF hPass.auto THEN "recover" ELSE "done"]
    /\ UNCHANGED <<failureStore, hAction, hPasses, hActions, hCalls>>
    /\ Outcome(ok)
    /\ UNCHANGED resolves
    /\ UNCHANGED exceptHeal

\* a failure record is marked resolved in the Store
ResolveFailure(id) ==
    /\ \E r \in failureStore : r.id = id /\ ~r.resolved
    /\ failureStore' = {IF r.id = id THEN [r EXCEPT !.resolved = TRUE] ELSE r :
                          r \in failureStore}
    /\ UNCHANGED <<actionStore, hPass, hAction, hPasses, hActions, hCalls>>
    /\ resolves < MaxResolves
    /\ resolves' = resolves + 1
    /\ UNCHANGED faults
    /\ UNCHANGED exceptHeal

\* a millisecond passes
MsTick ==
    /\ now < MaxMs
    /\ now' = now + 1
    /\ circuitBreakers' = [c \in ComponentSet |->
                             IF circuitBreakers[c] = NoBreaker THEN NoBreaker
                             ELSE Elapse(circuitBreakers[c], now')]
    /\ UNCHANGED <<hConfig, hIsRunning, hIntervals, cbEpoch, hcBodies, streak,
                   unhealthy, mIsRunning, mIntervals>>
    /\ UNCHANGED exceptHealth

(***************************************************************************)
(* Pure functions called directly: calculateReorderQuantity and the        *)
(* classification rules of the detectors.                                  *)
(***************************************************************************)
NotReturned == [done |-> FALSE]

\* no call is made
CallIdle ==
    /\ callArg = [fn |-> "none"]
    /\ callResult = NotReturned

\* the arguments calculateReorderQuantity is called with: an item's stock, a 30-day
\* demand and the configured reorder point
ReorderInputs ==
    [fn : {"calculateReorderQuantity"}, quantity : 0..MaxQuantity,
     prediction : {0, 45, 90, 100}, reorderPoint : {0, 20}]

\* calculateReorderQuantity(item, prediction) returns
CalculateReorderQuantity ==
    /\ callArg.fn = "calculateReorderQuantity"
    /\ callResult = NotReturned
    /\ callResult' =
         [done |-> TRUE,
          value30 |-> ReorderQuantity30([quantity |-> callArg.quantity],
                                        [prediction |-> callArg.prediction],
                                        callArg.reorderPoint)]
    /\ UNCHANGED callArg
    /\ UNCHANGED exceptCall

\* the metrics the detectors are called with: each at its threshold or just above it,
\* and the values cpu=95, connections=95 of 100, latency=1500
MetricInputs ==
    {[Normal EXCEPT !.cpu = in.cpu, !.memory = in.memory,
                    !.connections = in.connections, !.queryTime = in.queryTime,
                    !.blockDelay = in.blockDelay,
                    !.failedTransactions = in.failedTransactions,
                    !.packetLoss = in.packetLoss, !.latency = in.latency] :
        in \in [cpu : {90, 91, 95}, memory : {90, 91}, connections : {90, 91, 95},
                queryTime : {5000, 5001}, blockDelay : {300, 301},
                failedTransactions : {10, 11}, packetLoss : {5, 6},
                latency : {1000, 1001, 1500}]}

ClassifyInputs == {[fn |-> "detect", metrics |-> m] : m \in MetricInputs}

\* the five detectors return for the metrics of the call
Classify ==
    /\ callArg.fn = "detect"
    /\ callResult = NotReturned
    /\ callResult' = [done |-> TRUE, failures |-> DetectAll(callArg.metrics, now)]
    /\ UNCHANGED callArg
    /\ UNCHANGED exceptCall

(***************************************************************************)
(* OptimizationAgent.detectFraud().                                        *)
(***************************************************************************)
Severities == {"low", "medium", "high", "critical"}

\* what predictionEngine.detectFraud can resolve to: up to MaxFraudAlerts alerts
FraudAlertLists ==
    UNION {[1..n -> Severities] : n \in 0..MaxFraudAlerts}

\* line 177 (mutant: medium alerts are raised too)
RaisesFraudFromMedium(severity) == severity \in {"medium", "high", "critical"}

\* line 177: alert.severity === 'high' || alert.severity === 'critical'
RaisesFraud(severity) == severity \in {"high", "critical"}

\* lines 178-192: the fraud_alert Recommendation of the i-th alert
FraudRecommendation(i, severity, pass) ==
    [type |-> "fraud_alert", alert |-> i, pass |-> pass,
     priority |-> IF severity = "critical" THEN "critical" ELSE "high"]

\* lines 176-194: the recommendations of the alerts, in their order
RECURSIVE FraudRecommendations(_, _, _)
FraudRecommendations(alerts, i, pass) ==
    IF i > Len(alerts) THEN <<>>
    ELSE (IF RaisesFraud(alerts[i])
          THEN <<FraudRecommendation(i, alerts[i], pass)>> ELSE <<>>)
         \o FraudRecommendations(alerts, i + 1, pass)

IdleFraud ==
    [pc |-> "idle", n |-> 0, alerts |-> <<>>, recommendations |-> <<>>, idx |-> 0,
     criticalAlerts |-> 0]

\* lines 200-207: after the store loop, the critical alert when a critical
\* recommendation was raised, else the return
AfterFraudStore(pass) ==
    IF \E k \in 1..Len(pass.recommendations) :
          pass.recommendations[k].priority = "critical"
    THEN [pass EXCEPT !.pc = "criticalAlert", !.criticalAlerts = @ + 1]
    ELSE [pass EXCEPT !.pc = "done"]

\* detectFraud() is called: it returns [] at once when fraud detection is off, else
\* it awaits the recent transactions
FraudCall ==
    /\ fPass.pc \in {"idle", "done"}
    /\ fPass.n < MaxFraudPasses
    /\ fPass' = [IdleFraud EXCEPT !.n = fPass.n + 1,
                                  !.pc = IF fConfig THEN "transactions" ELSE "done"]
    /\ UNCHANGED <<fConfig, fStore>>
    /\ UNCHANGED exceptFraud

\* getRecentTransactions resolves, or rejects (then the catch returns [])
FraudTransactions(ok) ==
    /\ fPass.pc = "transactions"
    /\ fPass' = [fPass EXCEPT !.pc = IF ok THEN "detect" ELSE "done"]
    /\ UNCHANGED <<fConfig, fStore>>
    /\ UNCHANGED exceptFraud

\* predictionEngine.detectFraud resolves with alerts; the loop over them runs
\* without awaiting
FraudDetect(alerts) ==
    /\ fPass.pc = "detect"
    /\ LET recs == FraudRecommendations(alerts, 1, fPass.n)
           next == [fPass EXCEPT !.alerts = alerts, !.recommendations = recs]
       IN fPass' = IF Len(recs) = 0
                   THEN [next EXCEPT !.pc = "done"]
                   ELSE [next EXCEPT !.pc = "store", !.idx = 1]
    /\ UNCHANGED <<fConfig, fStore>>
    /\ UNCHANGED exceptFraud

\* predictionEngine.detectFraud rejects: the catch returns []
FraudDetectThrows ==
    /\ fPass.pc = "detect"
    /\ fPass' = [fPass EXCEPT !.pc = "done"]
    /\ UNCHANGED <<fConfig, fStore>>
    /\ UNCHANGED exceptFraud

\* storeRecommendation(recommendation): the write succeeds, or fails and is only logged
FraudStore(ok) ==
    /\ fPass.pc = "store"
    /\ fStore' = IF ok THEN fStore \cup {fPass.recommendations[fPass.idx]} ELSE fStore
    /\ fPass' = IF fPass.idx < Len(fPass.recommendations)
                THEN [fPass EXCEPT !.idx = @ + 1]
                ELSE AfterFraudStore(fPass)
    /\ UNCHANGED fConfig
    /\ UNCHANGED exceptFraud

\* alertService.sendCriticalAlert resolves, or rejects into the catch; the
\* recommendations are returned either way
FraudCriticalAlert(ok) ==
    /\ fPass.pc = "criticalAlert"
    /\ fPass' = [fPass EXCEPT !.pc = "done"]
    /\ UNCHANGED <<fConfig, fStore>>
    /\ UNCHANGED exceptFraud

\* the optimization agent's fraud detection after construction
FraudIdle ==
    /\ fConfig = TRUE
    /\ fPass = IdleFraud
    /\ fStore = {}

FraudNext ==
    \/ FraudCall
    \/ \E ok \in BOOLEAN : FraudTransactions(ok)
    \/ \E alerts \in FraudAlertLists : FraudDetect(alerts)
    \/ FraudDetectThrows
    \/ \E ok \in BOOLEAN : FraudStore(ok)
    \/ \E ok \in BOOLEAN : FraudCriticalAlert(ok)

(***************************************************************************)
(* MonitoringAgent.getHealthStatus().                                      *)
(***************************************************************************)
\* what a component check can meet: a fast answer, a slow one, or an error; the redis
\* check awaits nothing
ProbeOutcomes(component) ==
    IF component = "redis" THEN {"fast"} ELSE {"fast", "slow", "error"}

\* check*Health: up under the response-time limit, degraded over it, down in the catch
ComponentStatus(outcome) ==
    CASE outcome = "fast" -> "up"
      [] outcome = "slow" -> "degraded"
      [] outcome = "error" -> "down"

\* determineOverallStatus (mutant: critical only when more than half are down)
DetermineOverallStatusMajority(statuses) ==
    LET downCount == Cardinality({c \in DOMAIN statuses : statuses[c] = "down"})
        degradedCount == Cardinality({c \in DOMAIN statuses : statuses[c] = "degraded"})
        count == Cardinality(DOMAIN statuses)
    IN IF downCount > 0
       THEN (IF 2 * downCount > count THEN "critical" ELSE "degraded")
       ELSE (IF degradedCount > 0 THEN "degraded" ELSE "healthy")

\* determineOverallStatus over the statuses of the components
DetermineOverallStatus(statuses) ==
    LET downCount == Cardinality({c \in DOMAIN statuses : statuses[c] = "down"})
        degradedCount == Cardinality({c \in DOMAIN statuses : statuses[c] = "degraded"})
        count == Cardinality(DOMAIN statuses)
    IN IF downCount > 0
       THEN (IF 2 * downCount >= count THEN "critical" ELSE "degraded")
       ELSE (IF degradedCount > 0 THEN "degraded" ELSE "healthy")

IdleStatus ==
    [pc |-> "idle", n |-> 0, components |-> [c \in ComponentSet |-> "pending"],
     status |-> "none"]

\* getHealthStatus() is called: the four checks are started together
StatusCall ==
    /\ sPass.pc \in {"idle", "returned", "rejected"}
    /\ sPass.n < MaxStatusCalls
    /\ sPass' = [IdleStatus EXCEPT !.pc = "checks", !.n = sPass.n + 1]
    /\ UNCHANGED exceptStatus

\* one check of the Promise.all settles; when all have, the overall status is
\* determined and collectSystemMetrics() is awaited
StatusCheckResolve(component, outcome) ==
    /\ sPass.pc = "checks"
    /\ sPass.components[component] = "pending"
    /\ outcome \in ProbeOutcomes(component)
    /\ LET components == [sPass.components EXCEPT ![component] = ComponentStatus(outcome)]
       IN sPass' = IF \E c \in ComponentSet : components[c] = "pending"
                   THEN [sPass EXCEPT !.components = components]
                   ELSE [sPass EXCEPT !.components = components, !.pc = "metrics",
                                      !.status = DetermineOverallStatus(components)]
    /\ UNCHANGED exceptStatus

\* collectSystemMetrics() resolves and the HealthStatus is returned, or one of the
\* metric collector calls rejects and getHealthStatus() rejects with it
StatusMetricsResolve(ok) ==
    /\ sPass.pc = "metrics"
    /\ sPass' = [sPass EXCEPT !.pc = IF ok THEN "returned" ELSE "rejected"]
    /\ UNCHANGED exceptStatus

StatusIdle == sPass = IdleStatus

StatusNext ==
    \/ StatusCall
    \/ \E component \in ComponentSet, outcome \in {"fast", "slow", "error"} :
          StatusCheckResolve(component, outcome)
    \/ \E ok \in BOOLEAN : StatusMetricsResolve(ok)

(***************************************************************************)
(* OptimizationAgent.generateCostOptimizations(): the recommendations      *)
(* built from the optimizations the engine returns.                        *)
(***************************************************************************)
\* what optimizationEngine.analyzeCostOptimizations can return: an impact around the
\* cutoff and a confidence in hundredths
CostOptimizations ==
    [impact : {5000, CostImpactCutoff, CostImpactCutoff + 1, 20000},
     confidence : {10, 50, 90}]

\* the Recommendation pushed for one optimization
CostRecommendation(optimization) ==
    [type |-> "cost_saving",
     priority |-> IF optimization.impact > CostImpactCutoff THEN "high" ELSE "medium",
     cost |-> optimization.impact,
     confidence |-> optimization.confidence]

\* the optimizations one call gets from the engine
CostInputs ==
    [fn : {"generateCostOptimizations"},
     optimizations : [1..2 -> CostOptimizations]]

\* the loop of generateCostOptimizations over the optimizations; the call returns
GenerateCostOptimizations ==
    /\ callArg.fn = "generateCostOptimizations"
    /\ callResult = NotReturned
    /\ callResult' =
         [done |-> TRUE,
          recommendations |->
             [k \in 1..Len(callArg.optimizations) |->
                CostRecommendation(callArg.optimizations[k])]]
    /\ UNCHANGED callArg
    /\ UNCHANGED exceptCall

(***************************************************************************)
(* MonitoringAgent.detectAnomalies(): collect, detect, then handleAnomaly  *)
(* for each anomaly in turn.                                               *)
(***************************************************************************)
\* what the four detectors of anomalyDetector can return together: up to
\* MaxAnomalies anomalies, each of some severity
AnomalyLists ==
    UNION {[1..n -> Severities] : n \in 0..MaxAnomalies}

\* the switch of handleAnomaly: the AlertSink call an anomaly of this severity gets
AnomalySink(severity) ==
    CASE severity = "critical" -> "sendCriticalAlert"
      [] severity = "high" -> "sendWarning"
      [] OTHER -> "sendInfo"

IdleAnomaly ==
    [pc |-> "idle", n |-> 0, anomalies |-> <<>>, idx |-> 0, alerts |-> <<>>,
     handed |-> {}]

\* the catch of detectAnomalies: the error is logged and the anomalies are returned
AnomalyCatch(pass) == [pass EXCEPT !.pc = "done"]

\* handleAnomaly for the i-th anomaly of the pass, or detectAnomalies returns
HandleAnomalyFrom(pass, i) ==
    IF i <= Len(pass.anomalies)
    THEN [pass EXCEPT !.pc = "alert", !.idx = i]
    ELSE [pass EXCEPT !.pc = "done"]

\* detectAnomalies() is called and awaits collectAllMetrics()
AnomalyCall ==
    /\ aPass.pc \in {"idle", "done"}
    /\ aPass.n < MaxAnomalyPasses
    /\ aPass' = [IdleAnomaly EXCEPT !.pc = "collect", !.n = aPass.n + 1]
    /\ UNCHANGED aStore
    /\ UNCHANGED exceptAnomaly

\* collectAllMetrics() resolves, or a metricCollector call rejects into the catch
AnomalyCollect(ok) ==
    /\ aPass.pc = "collect"
    /\ aPass' = IF ok THEN [aPass EXCEPT !.pc = "detect"] ELSE AnomalyCatch(aPass)
    /\ UNCHANGED aStore
    /\ UNCHANGED exceptAnomaly

\* the four detectors have answered: their anomalies are pushed and handling begins
AnomalyDetect(anomalies) ==
    /\ aPass.pc = "detect"
    /\ aPass' = HandleAnomalyFrom([aPass EXCEPT !.anomalies = anomalies], 1)
    /\ UNCHANGED aStore
    /\ UNCHANGED exceptAnomaly

\* a detector rejects: nothing was pushed yet, the catch logs the error
AnomalyDetectThrows ==
    /\ aPass.pc = "detect"
    /\ aPass' = AnomalyCatch(aPass)
    /\ UNCHANGED aStore
    /\ UNCHANGED exceptAnomaly

\* handleAnomaly: the awaited AlertSink call of the anomaly resolves, and
\* storeAnomaly is called; or it rejects, which leaves handleAnomaly and the loop
AnomalyAlert(ok) ==
    LET sent == [aPass EXCEPT !.alerts =
                    Append(@, [i |-> aPass.idx,
                               sink |-> AnomalySink(aPass.anomalies[aPass.idx])])]
    IN
    /\ aPass.pc = "alert"
    /\ aPass' = IF ok
                THEN [sent EXCEPT !.pc = "store", !.handed = @ \cup {aPass.idx}]
                ELSE AnomalyCatch(sent)
    /\ UNCHANGED aStore
    /\ UNCHANGED exceptAnomaly

\* storeAnomaly: databaseService.storeAnomaly resolves, or rejects and is only logged
AnomalyStore(ok) ==
    /\ aPass.pc = "store"
    /\ aStore' = IF ok
                 THEN aStore \cup {[n |-> aPass.n, i |-> aPass.idx,
                                    severity |-> aPass.anomalies[aPass.idx]]}
                 ELSE aStore
    /\ aPass' = HandleAnomalyFrom(aPass, aPass.idx + 1)
    /\ UNCHANGED exceptAnomaly

\* detectAnomalies() was never called
AnomalyIdle ==
    /\ aPass = IdleAnomaly
    /\ aStore = {}

AnomalyNext ==
    \/ AnomalyCall
    \/ \E ok \in BOOLEAN : AnomalyCollect(ok)
    \/ \E anomalies \in AnomalyLists : AnomalyDetect(anomalies)
    \/ AnomalyDetectThrows
    \/ \E ok \in BOOLEAN : AnomalyAlert(ok)
    \/ \E ok \in BOOLEAN : AnomalyStore(ok)

(***************************************************************************)
(* AuthController.getNonce and login, with the nonce service over redis.   *)
(***************************************************************************)
\* wallet addresses as requests carry them: all lower case, or checksummed
Addresses == {"0xab", "0xAB"}

\* address.toLowerCase()
ToLowerCase(address) == "0xab"

NoNonce == 0

IdleLogin == [pc |-> "idle", address |-> "0xab", nonce |-> NoNonce]

\* getNonce: createNonce gives a fresh nonce, storeNonce writes it under the
\* lower-cased key
GetNonce(address) ==
    /\ nIssued < MaxNonces
    /\ nIssued' = nIssued + 1
    /\ nStore' = [nStore EXCEPT ![ToLowerCase(address)] = nIssued + 1]
    /\ UNCHANGED logins
    /\ UNCHANGED exceptAuth

\* login is called with an address, a nonce and a valid signature over that nonce,
\* and awaits redisClient.get
LoginCall(r, address, nonce) ==
    /\ logins[r].pc = "idle"
    /\ logins' = [logins EXCEPT ![r] = [pc |-> "get", address |-> address,
                                        nonce |-> nonce]]
    /\ UNCHANGED <<nStore, nIssued>>
    /\ UNCHANGED exceptAuth

\* login, lines 64-67: the nonce stored under `nonce:${address}` must be the one
\* presented; the signature check passes and the user lookup is awaited
LoginGet(r) ==
    /\ logins[r].pc = "get"
    /\ logins' = [logins EXCEPT ![r].pc =
                     IF nStore[logins[r].address] = logins[r].nonce
                     THEN "verify" ELSE "rejected"]
    /\ UNCHANGED <<nStore, nIssued>>
    /\ UNCHANGED exceptAuth

\* login, lines 77-92: getUserByAddress and verifySignatureOnChain answer;
\* consumeNonce is called and awaits its own redisClient.get
LoginVerified(r, ok) ==
    /\ logins[r].pc = "verify"
    /\ logins' = [logins EXCEPT ![r].pc = IF ok THEN "consumeGet" ELSE "rejected"]
    /\ UNCHANGED <<nStore, nIssued>>
    /\ UNCHANGED exceptAuth

\* consumeNonce: the get answers, or throws; without a matching stored nonce the
\* function returns false, else it awaits redisClient.del. login ignores the result.
ConsumeGet(r, ok) ==
    /\ logins[r].pc = "consumeGet"
    /\ logins' = [logins EXCEPT ![r].pc =
                     IF ok /\ nStore[ToLowerCase(logins[r].address)] = logins[r].nonce
                     THEN "consumeDel" ELSE "session"]
    /\ UNCHANGED <<nStore, nIssued>>
    /\ UNCHANGED exceptAuth

\* consumeNonce: the del removes the key, or throws and the function returns false
ConsumeDel(r, ok) ==
    /\ logins[r].pc = "consumeDel"
    /\ nStore' = IF ok
                 THEN [nStore EXCEPT ![ToLowerCase(logins[r].address)] = NoNonce]
                 ELSE nStore
    /\ logins' = [logins EXCEPT ![r].pc = "session"]
    /\ UNCHANGED nIssued
    /\ UNCHANGED exceptAuth

\* login, lines 97-143: the session and the refresh token are written and the
\* response is sent, or one of the writes throws
LoginSession(r, ok) ==
    /\ logins[r].pc = "session"
    /\ logins' = [logins EXCEPT ![r].pc = IF ok THEN "succeeded" ELSE "rejected"]
    /\ UNCHANGED <<nStore, nIssued>>
    /\ UNCHANGED exceptAuth

\* no nonce issued, no login requested
AuthIdle ==
    /\ nStore = [key \in Addresses |-> NoNonce]
    /\ nIssued = 0
    /\ logins = [r \in 1..MaxLogins |-> IdleLogin]

AuthNext ==
    \/ \E address \in Addresses : GetNonce(address)
    \/ \E r \in 1..MaxLogins, address \in Addresses, nonce \in 1..MaxNonces :
          LoginCall(r, address, nonce)
    \/ \E r \in 1..MaxLogins : LoginGet(r)
    \/ \E r \in 1..MaxLogins, ok \in BOOLEAN : LoginVerified(r, ok)
    \/ \E r \in 1..MaxLogins, ok \in BOOLEAN : ConsumeGet(r, ok)
    \/ \E r \in 1..MaxLogins, ok \in BOOLEAN : ConsumeDel(r, ok)
    \/ \E r \in 1..MaxLogins, ok \in BOOLEAN : LoginSession(r, ok)

(***************************************************************************)
(* Initial states and specifications.                                      *)
(***************************************************************************)
HealthConfigs ==
    [circuitBreakerThreshold : 1..MaxThreshold,
     recoveryTimeout : {TickMs},
     autoHealingEnabled : BOOLEAN]

\* the agents after construction, their configuration drawn from configs
HealthInitWith(configs) ==
    /\ hConfig \in configs
    /\ hIsRunning = FALSE
    /\ hIntervals = <<>>
    /\ circuitBreakers = [c \in ComponentSet |-> NoBreaker]
    /\ cbEpoch = 0
    /\ now = 0
    /\ hcBodies = EmptyBag
    /\ streak = [c \in ComponentSet |-> 0]
    /\ unhealthy = 0
    /\ mIsRunning = FALSE
    /\ mIntervals = <<>>

HealthInit == HealthInitWith(HealthConfigs)

HealthIdle ==
    HealthInitWith({[circuitBreakerThreshold |-> 1, recoveryTimeout |-> TickMs,
                     autoHealingEnabled |-> TRUE]})

OptConfigs ==
    [lowStockThreshold : {10, 30}, reorderPoint : {20}, demandForecasting : BOOLEAN,
     predictionAccuracy : {ConfCutoff}]

\* configurations that differ only in thresholds.predictionAccuracy, in hundredths
AccuracyConfigs ==
    [lowStockThreshold : {10}, reorderPoint : {20}, demandForecasting : {TRUE},
     predictionAccuracy : {60, ConfCutoff, ReorderConfidence}]

\* the optimization agent after construction, its configuration drawn from configs
OptInitWith(configs) ==
    /\ oConfig \in configs
    /\ oIsRunning = FALSE
    /\ oIntervals = <<>>
    /\ oStarting = 0
    /\ oStarts = 0
    /\ oStopReturned = FALSE
    /\ oFiredAfterStop = FALSE
    /\ pPass = IdlePrediction
    /\ rPass = IdleReorder
    /\ oPasses = 0
    /\ oPredStore = {}
    /\ oRecStore = {}

OptInit == OptInitWith(OptConfigs)

OptIdle ==
    OptInitWith({[lowStockThreshold |-> 10, reorderPoint |-> 20,
                  demandForecasting |-> TRUE, predictionAccuracy |-> ConfCutoff]})

\* the Store and the agent's recovery state after construction
HealIdle ==
    /\ failureStore = {}
    /\ actionStore = {}
    /\ hPass = IdlePass
    /\ hAction = NoAction
    /\ hPasses = 0
    /\ hActions = 0
    /\ hCalls = 0
    /\ faults = 0
    /\ resolves = 0

BodyStates == [idx : 1..Len(Components), stale : BOOLEAN]

HealthNext ==
    \/ HStart
    \/ HStop
    \/ HealthCheckFire
    \/ \E body \in BodyStates, isHealthy \in BOOLEAN : HealthCheckResolve(body, isHealthy)
    \/ Tick

LifecycleNext ==
    \/ HealthNext
    \/ MStart
    \/ MStop

OptNext ==
    \/ OStartCall
    \/ OStartResume
    \/ OStartFail
    \/ OStop
    \/ PredictCall
    \/ \E ok \in BOOLEAN : PredictInventory(ok)
    \/ \E result \in EngineResults : PredictDemand(result)
    \/ PredictDemandThrows
    \/ \E ok \in BOOLEAN : StorePrediction(ok)
    \/ ReorderCall
    \/ \E ok \in BOOLEAN : ReorderLowStock(ok)
    \/ \E ok \in BOOLEAN : ReorderPredictions(ok)
    \/ \E ok \in BOOLEAN : StoreRecommendation(ok)
    \/ PredictionFire
    \/ AnalysisFire
    \/ RecommendationFire

FailureKinds ==
    {"service-api", "db-connection", "db-connections", "db-performance",
     "bc-connection", "bc-delay", "bc-failed-tx", "network-loss",
     "network-latency", "cpu-high", "memory-high", "disk-high"}

HealNext ==
    \/ HStart
    \/ MsTick
    \/ AutoRecoveryFire
    \/ DetectFailuresCall
    \/ \E m \in Snapshots : DetectResolve(m)
    \/ \E ok \in BOOLEAN : GetFailureResolve(ok)
    \/ \E ok \in BOOLEAN : StoreFailureResolve(ok)
    \/ \E ok \in BOOLEAN : FailureAlertResolve(ok)
    \/ RecoverNext
    \/ \E ok \in BOOLEAN : PrimitiveResolve(ok)
    \/ \E ok \in BOOLEAN : RecoveryAlertResolve(ok)
    \/ \E ok \in BOOLEAN : CriticalAlertResolve(ok)
    \/ \E ok \in BOOLEAN : StoreActionResolve(ok)
    \/ \E kind \in FailureKinds, t \in 0..MaxMs : ResolveFailure(<<kind, t>>)

ActionTypes == {"restart", "rollback", "scale", "reconnect", "cleanup"}

ExecuteNext ==
    \/ \E type \in ActionTypes, component \in {"api", "database"} :
          ExecuteCall(type, component)
    \/ ExecuteAgain
    \/ \E ok \in BOOLEAN : PrimitiveResolve(ok)
    \/ \E ok \in BOOLEAN : RecoveryAlertResolve(ok)
    \/ \E ok \in BOOLEAN : CriticalAlertResolve(ok)
    \/ \E ok \in BOOLEAN : StoreActionResolve(ok)
    \/ MsTick

InitHealth == HealthInit /\ OptIdle /\ HealIdle /\ CallIdle /\ FraudIdle /\ StatusIdle /\ MonitorIdle
    /\ AnomalyIdle /\ AuthIdle

InitOpt == HealthIdle /\ OptInit /\ HealIdle /\ CallIdle /\ FraudIdle /\ StatusIdle /\ MonitorIdle
    /\ AnomalyIdle /\ AuthIdle

InitHeal == HealthIdle /\ OptIdle /\ HealIdle /\ CallIdle /\ FraudIdle /\ StatusIdle /\ MonitorIdle
    /\ AnomalyIdle /\ AuthIdle

SpecHealth == InitHealth /\ [][HealthNext]_vars

SpecLifecycle == InitHealth /\ [][LifecycleNext]_vars

SpecOpt == InitOpt /\ [][OptNext]_vars

SpecHeal == InitHeal /\ [][HealNext]_vars

\* auto-recovery cycles only
RecoveryNext ==
    \/ HStart
    \/ AutoRecoveryFire
    \/ \E m \in Snapshots : DetectResolve(m)
    \/ \E ok \in BOOLEAN : GetFailureResolve(ok)
    \/ \E ok \in BOOLEAN : StoreFailureResolve(ok)
    \/ \E ok \in BOOLEAN : FailureAlertResolve(ok)
    \/ RecoverNext
    \/ \E ok \in BOOLEAN : PrimitiveResolve(ok)
    \/ \E ok \in BOOLEAN : RecoveryAlertResolve(ok)
    \/ \E ok \in BOOLEAN : CriticalAlertResolve(ok)
    \/ \E ok \in BOOLEAN : StoreActionResolve(ok)

SpecRecover == InitHeal /\ [][RecoveryNext]_vars

SpecExecute == InitHeal /\ [][ExecuteNext]_vars

InitReorder ==
    /\ HealthIdle /\ OptIdle /\ HealIdle /\ FraudIdle /\ StatusIdle /\ MonitorIdle
    /\ AnomalyIdle /\ AuthIdle
    /\ callArg \in ReorderInputs
    /\ callResult = NotReturned

SpecReorder == InitReorder /\ [][CalculateReorderQuantity]_vars

InitClassify ==
    /\ HealthIdle /\ OptIdle /\ HealIdle /\ FraudIdle /\ StatusIdle /\ MonitorIdle
    /\ AnomalyIdle /\ AuthIdle
    /\ callArg \in ClassifyInputs
    /\ callResult = NotReturned

SpecClassify == InitClassify /\ [][Classify]_vars

InitFraud ==
    /\ HealthIdle /\ OptIdle /\ HealIdle /\ CallIdle /\ StatusIdle /\ MonitorIdle
    /\ AnomalyIdle /\ AuthIdle
    /\ fConfig \in BOOLEAN
    /\ fPass = IdleFraud
    /\ fStore = {}

SpecFraud == InitFraud /\ [][FraudNext]_vars

InitStatus ==
    HealthIdle /\ OptIdle /\ HealIdle /\ CallIdle /\ FraudIdle /\ StatusIdle /\ MonitorIdle
    /\ AnomalyIdle /\ AuthIdle

SpecStatus == InitStatus /\ [][StatusNext]_vars

InitMonitor ==
    HealthIdle /\ OptIdle /\ HealIdle /\ CallIdle /\ FraudIdle /\ StatusIdle /\ MonitorIdle
    /\ AnomalyIdle /\ AuthIdle

SpecMonitor == InitMonitor /\ [][MonitorNext]_vars

\* the prediction pass alone, under each of the configurations
AccuracyNext ==
    \/ PredictCall
    \/ \E ok \in BOOLEAN : PredictInventory(ok)
    \/ \E result \in EngineResults : PredictDemand(result)
    \/ PredictDemandThrows
    \/ \E ok \in BOOLEAN : StorePrediction(ok)

InitAccuracy ==
    /\ HealthIdle /\ HealIdle /\ CallIdle /\ FraudIdle /\ StatusIdle /\ MonitorIdle
    /\ AnomalyIdle /\ AuthIdle
    /\ OptInitWith(AccuracyConfigs)

SpecAccuracy == InitAccuracy /\ [][AccuracyNext]_vars

InitCost ==
    /\ HealthIdle /\ OptIdle /\ HealIdle /\ FraudIdle /\ StatusIdle /\ MonitorIdle
    /\ AnomalyIdle /\ AuthIdle
    /\ callArg \in CostInputs
    /\ callResult = NotReturned

SpecCost == InitCost /\ [][GenerateCostOptimizations]_vars

InitAuth ==
    /\ HealthIdle /\ OptIdle /\ HealIdle /\ CallIdle /\ FraudIdle /\ StatusIdle
    /\ MonitorIdle /\ AnomalyIdle /\ AuthIdle

SpecAuth == InitAuth /\ [][AuthNext]_vars

InitAnomaly ==
    HealthIdle /\ OptIdle /\ HealIdle /\ CallIdle /\ FraudIdle /\ StatusIdle /\ MonitorIdle
    /\ AnomalyIdle /\ AuthIdle

SpecAnomaly == InitAnomaly /\ [][AnomalyNext]_vars

\* the steps of a pass other than the completion of an AlertSink call
AnomalyProgress ==
    \/ AnomalyCall
    \/ \E ok \in BOOLEAN : AnomalyCollect(ok)
    \/ \E anomalies \in AnomalyLists : AnomalyDetect(anomalies)
    \/ AnomalyDetectThrows
    \/ \E ok \in BOOLEAN : AnomalyStore(ok)

\* every call but the AlertSink's completes in the end; the AlertSink may be slow
\* or never answer
SpecAnomalySlowAlert ==
    InitAnomaly /\ [][AnomalyNext]_vars /\ WF_vars(AnomalyProgress)

(***************************************************************************)
(* Circuit breaker claims (SpecHealth).                                    *)
(***************************************************************************)
\* the breaker object of component c is the same before and after the step
SameBreaker(c) == circuitBreakers[c] # NoBreaker /\ cbEpoch' = cbEpoch

\* this step is performHealthCheck recording the probe result isHealthy on the
\* agent's breaker of component c
RecordedOn(c, isHealthy) ==
    \E body \in BodyStates :
        /\ ~body.stale
        /\ Components[body.idx] = c
        /\ HealthCheckResolve(body, isHealthy)

\* C1: the breaker of every monitored component refuses execution (canExecute() is
\* false) in every state where it is open, and canExecute() of that breaker turns
\* from false to true only in a step after which at least resetTimeout (60000 ms)
\* has elapsed since openedAt, whatever results were recorded in between.
C1_OpenBlocksUntilReset ==
    [][\A c \in ComponentSet :
         SameBreaker(c) =>
           /\ circuitBreakers[c].state = "open" => ~CanExecute(circuitBreakers[c])
           /\ (~CanExecute(circuitBreakers[c]) /\ CanExecute(circuitBreakers'[c]))
                => now' >= circuitBreakers[c].openedAt + ResetTimeout]_vars

\* C1 witness: a breaker that was open is half-open after its reset timeout
C1_Witness ==
    \E c \in ComponentSet :
        /\ circuitBreakers[c] # NoBreaker
        /\ circuitBreakers[c].state = "half-open"
        /\ now >= circuitBreakers[c].openedAt + ResetTimeout

\* C2: a breaker goes closed -> open exactly in the step that records the
\* failureThreshold-th consecutive failure: the step that completes a run of
\* failureThreshold unhealthy results opens it, a closed breaker whose run is shorter
\* (or was interrupted by a success) stays closed, and a failure recorded while it
\* is already open leaves it open with openedAt untouched (no second opening).
C2_OpensOncePerCrossing ==
    [][\A c \in ComponentSet :
         SameBreaker(c) =>
           LET b == circuitBreakers[c]
               b2 == circuitBreakers'[c]
           IN
           /\ (b.state = "closed" /\ b2.state = "open")
                => /\ streak'[c] = b.failureThreshold
                   /\ RecordedOn(c, FALSE)
           /\ (b.state = "closed" /\ streak'[c] >= b.failureThreshold)
                => b2.state = "open"
           /\ (b.state = "closed" /\ streak'[c] < b.failureThreshold)
                => b2.state = "closed"
           /\ (b.state = "open" /\ RecordedOn(c, FALSE))
                => (b2.state = "open" /\ b2.openedAt = b.openedAt)]_vars

\* C2 witness: a failure was recorded on a breaker that was already open
C2_Witness ==
    \E c \in ComponentSet :
        /\ circuitBreakers[c] # NoBreaker
        /\ circuitBreakers[c].state = "open"
        /\ circuitBreakers[c].consecutiveFailures > circuitBreakers[c].failureThreshold

\* C3: from half-open, one recorded success closes the breaker, one recorded failure
\* opens it again with openedAt set to the current time, and the breaker leaves
\* half-open in no other way.
C3_HalfOpenResolves ==
    [][\A c \in ComponentSet :
         (SameBreaker(c) /\ circuitBreakers[c].state = "half-open") =>
           LET b2 == circuitBreakers'[c] IN
           /\ RecordedOn(c, TRUE) => b2.state = "closed"
           /\ RecordedOn(c, FALSE) => (b2.state = "open" /\ b2.openedAt = now)
           /\ b2.state # "half-open" => (RecordedOn(c, TRUE) \/ RecordedOn(c, FALSE))]_vars

\* C3 witness: a breaker that went through half-open is open again, reopened at a
\* later time than the start of the run
C3_Witness ==
    \E c \in ComponentSet :
        /\ circuitBreakers[c] # NoBreaker
        /\ circuitBreakers[c].state = "open"
        /\ circuitBreakers[c].openedAt >= ResetTimeout

(***************************************************************************)
(* Timer claims (SpecLifecycle).                                           *)
(***************************************************************************)
\* how many timers of a concern an intervals array holds
TimerCount(intervals, concern) ==
    Cardinality({k \in 1..Len(intervals) : intervals[k] = concern})

\* C8: whatever start() and stop() calls were made, a running HealingAgent or
\* MonitoringAgent holds exactly one timer per scheduled concern (the auto-recovery
\* timer only when autoHealing is enabled) and a stopped one holds none.
C8_OneTimerPerConcern ==
    /\ TimerCount(hIntervals, "healthCheck") = (IF hIsRunning THEN 1 ELSE 0)
    /\ TimerCount(hIntervals, "autoRecovery") =
         (IF hIsRunning /\ hConfig.autoHealingEnabled THEN 1 ELSE 0)
    /\ Len(hIntervals) =
         TimerCount(hIntervals, "healthCheck") + TimerCount(hIntervals, "autoRecovery")
    /\ \A k \in 1..Len(MonitoringConcerns) :
         TimerCount(mIntervals, MonitoringConcerns[k]) = (IF mIsRunning THEN 1 ELSE 0)
    /\ Len(mIntervals) = (IF mIsRunning THEN Len(MonitoringConcerns) ELSE 0)

\* C8 witness: both agents run again after a stop()/start() cycle
C8_Witness ==
    /\ cbEpoch = 2
    /\ hIsRunning
    /\ mIsRunning
    /\ hConfig.autoHealingEnabled

(***************************************************************************)
(* OptimizationAgent claims (SpecOpt).                                     *)
(***************************************************************************)
\* C9: once stop() has returned, no timer body of the agent starts until start() is
\* called again, also when stop() ran while an earlier start() was still awaiting
\* predictionEngine.initialize().
C9_NoFiringAfterStop == ~oFiredAfterStop

SeqToSet(seq) == {seq[i] : i \in 1..Len(seq)}

\* the predictions a pass has kept so far (its return value once it is done)
Returned(pass) == SeqToSet(pass.predictions)

\* the predictions of the items processed so far whose engine result satisfies keep
SeenWith(pass, keep(_)) ==
    {PredictionOf(Inventory[i], pass.seen[i]) :
        i \in {j \in 1..Len(pass.seen) : pass.seen[j] # Null /\ keep(pass.seen[j])}}

ItemOf(r) == CHOOSE i \in 1..Len(Inventory) : Inventory[i].sku = r.sku

\* the reorder recommendations created by the pass in flight or stored so far
ReorderMade == SeqToSet(rPass.recommendations) \cup oRecStore

\* C11: every reorder Recommendation created or stored is for an item whose quantity
\* is below the configured low-stock threshold and rests on a stored demand
\* Prediction of that item's SKU with confidence above 0.8; with demand forecasting
\* off none is created.
C11_ReorderOnlyConfidentLowStock ==
    /\ \A r \in ReorderMade :
         /\ r.type = "reorder"
         /\ r.confidence > ReorderConfidence
         /\ Inventory[ItemOf(r)].quantity < oConfig.lowStockThreshold
         /\ \E q \in oPredStore : q.target = r.sku /\ q.confidence = r.confidence
    /\ ~oConfig.demandForecasting => ReorderMade = {}

\* C11 witness: a finished pass stored a Recommendation for one low-stock item and
\* made none for another low-stock item whose only Prediction is at exactly 0.8
C11_Witness ==
    /\ rPass.pc = "done"
    /\ \E r \in oRecStore : r \in SeqToSet(rPass.recommendations)
    /\ \E i \in 1..Len(Inventory) :
         /\ Inventory[i].quantity < oConfig.lowStockThreshold
         /\ \A r \in ReorderMade : r.sku # Inventory[i].sku
         /\ \E q \in oPredStore : q.target = Inventory[i].sku
         /\ \A q \in oPredStore :
              q.target = Inventory[i].sku => q.confidence = ReorderConfidence

\* 30 times the quantity the formula gives before it is clamped at zero
Raw30 ==
    LeadTimeDays * callArg.prediction
        + ForecastDays * (callArg.reorderPoint - callArg.quantity)

\* C12: the recommended order quantity is max(0, (prediction / 30) * 7 + reorderPoint
\* - quantity): never negative, the formula's value when that is positive and 0
\* otherwise; for quantity 5, prediction 90 and reorder point 20 it is 36.
C12_ReorderQuantityFormula ==
    callResult.done =>
        /\ callResult.value30 >= 0
        /\ callResult.value30 >= Raw30
        /\ callResult.value30 \in {0, Raw30}
        /\ (callArg.quantity = 5 /\ callArg.prediction = 90 /\ callArg.reorderPoint = 20)
              => callResult.value30 = 36 * ForecastDays

\* C12 witness: the call with quantity 5, prediction 90 and reorder point 20 returned
C12_Witness ==
    /\ callResult.done
    /\ callArg.quantity = 5 /\ callArg.prediction = 90 /\ callArg.reorderPoint = 20
    /\ callResult.value30 = 36 * ForecastDays

\* how many failures of a type and severity the detectors returned
Classified(type, severity) ==
    Cardinality({i \in 1..Len(callResult.failures) :
                   /\ callResult.failures[i].type = type
                   /\ callResult.failures[i].severity = severity})

\* one failure of the type and severity when the rule fires, none otherwise
Rule(fires, type, severity) ==
    Classified(type, severity) = IF fires THEN 1 ELSE 0

\* C13: the failures the detectors return are exactly those of the eight rules, each
\* with a strict threshold (a metric at its threshold yields none); cpu=95,
\* connections 95 of 100 and latency=1500 with everything else normal yield exactly
\* three failures, all high.
C13_ClassificationRules ==
    callResult.done =>
        LET m == callArg.metrics IN
        /\ Rule(m.cpu > 90, "resource", "high")
        /\ Rule(m.memory > 90, "resource", "critical")
        /\ Rule(m.connections * 10 > m.maxConnections * 9, "database", "high")
        /\ Rule(m.queryTime > 5000, "database", "medium")
        /\ Rule(m.blockDelay > 300, "blockchain", "high")
        /\ Rule(m.failedTransactions > 10, "blockchain", "medium")
        /\ Rule(m.packetLoss > 5, "network", "medium")
        /\ Rule(m.latency > 1000, "network", "high")
        /\ Len(callResult.failures)
              = Classified("resource", "high") + Classified("resource", "critical")
                + Classified("database", "high") + Classified("database", "medium")
                + Classified("blockchain", "high") + Classified("blockchain", "medium")
                + Classified("network", "medium") + Classified("network", "high")
        /\ (m.cpu = 95 /\ m.connections = 95 /\ m.latency = 1500 /\ m.memory = 90
             /\ m.queryTime = 5000 /\ m.blockDelay = 300 /\ m.failedTransactions = 10
             /\ m.packetLoss = 5)
              => /\ Len(callResult.failures) = 3
                 /\ \A i \in 1..3 : callResult.failures[i].severity = "high"

\* C13 witness: the detectors returned three high failures for cpu=95, connections
\* 95 of 100, latency=1500 and every other metric at its threshold
C13_Witness ==
    /\ callResult.done
    /\ callArg.metrics.cpu = 95 /\ callArg.metrics.connections = 95
    /\ callArg.metrics.latency = 1500 /\ callArg.metrics.memory = 90
    /\ callArg.metrics.queryTime = 5000 /\ callArg.metrics.blockDelay = 300
    /\ callArg.metrics.failedTransactions = 10 /\ callArg.metrics.packetLoss = 5
    /\ Len(callResult.failures) = 3

\* the fraud recommendations raised by the pass in flight or stored so far
FraudMade == SeqToSet(fPass.recommendations) \cup fStore

\* the pass in flight raised a critical fraud recommendation
RaisedCritical ==
    \E r \in SeqToSet(fPass.recommendations) : r.priority = "critical"

\* C14: every fraud_alert Recommendation raised or stored is for an alert of severity
\* high or critical, a pass raises one for each such alert and none for the others
\* (none at all with fraud detection off), and a pass that raised a critical one
\* sends one critical alert before it returns; no critical alert is sent otherwise.
C14_FraudOnlySevereAndAlerted ==
    /\ \A r \in FraudMade : r.type = "fraud_alert" /\ r.priority \in {"high", "critical"}
    /\ \A r \in SeqToSet(fPass.recommendations) :
         /\ fPass.alerts[r.alert] \in {"high", "critical"}
         /\ r.priority = "critical" <=> fPass.alerts[r.alert] = "critical"
    /\ Len(fPass.recommendations)
         = Cardinality({i \in 1..Len(fPass.alerts) :
                          fPass.alerts[i] \in {"high", "critical"}})
    /\ ~fConfig => FraudMade = {}
    /\ fPass.pc = "done" => fPass.criticalAlerts = IF RaisedCritical THEN 1 ELSE 0
    /\ fPass.criticalAlerts > 0 => RaisedCritical

\* C14 witness: a finished pass got a medium and a critical alert, raised only the
\* critical one and sent the critical alert, although its store write failed
C14_Witness ==
    /\ fPass.pc = "done"
    /\ fPass.alerts = <<"medium", "critical">>
    /\ Len(fPass.recommendations) = 1
    /\ fPass.criticalAlerts = 1
    /\ fPass.recommendations[1] \notin fStore

(***************************************************************************)
(* Claims about detection, auto-recovery and healing actions.              *)
(***************************************************************************)
\* the unresolved records the Store holds for one abnormal condition
Unresolved(kind) == {r \in failureStore : r.kind = kind /\ ~r.resolved}

\* C4: a condition detected again while its record is still unresolved (the runs here
\* are shorter than any dedup window) is not stored a second time: the Store holds at
\* most one unresolved record per abnormal condition.
C4_OneUnresolvedRecordPerCondition ==
    \A kind \in FailureKinds : Cardinality(Unresolved(kind)) <= 1

\* the healing action the failure-to-action table assigns to a failure type
TableAction(failure) ==
    CASE failure.type = "service" -> "restart"
      [] failure.type = "blockchain" -> "reconnect"
      [] failure.type = "database" ->
            IF IncludesConnection(failure.description) THEN "reconnect" ELSE "cleanup"
      [] failure.type = "resource" -> "scale"
      [] OTHER -> "none"

\* the action of the agent's own that executeHealingAction is working on
Executing ==
    /\ hAction.owner = "agent"
    /\ hPass.pc \in {"primitive", "recoveryAlert", "criticalAlert", "storeAction"}

\* C5: the action auto-recovery executes for a failure is the one the table assigns
\* to its type (service restart, blockchain reconnect, database reconnect or cleanup,
\* resource scale), and no action is executed for a network failure.
C5_ActionFollowsTable ==
    Executing =>
        LET failure == hPass.failures[hPass.idx]
        IN /\ failure.type # "network"
           /\ hAction.type = TableAction(failure)

\* how many times auto-recovery began an action for the i-th failure of the cycle
Executions(i) == Cardinality({k \in 1..Len(hPass.executed) : hPass.executed[k] = i})

\* C6: when an auto-recovery cycle has ended, exactly one healing action was executed
\* for every failure it detected with severity high or critical, and none for the
\* failures of severity low or medium.
C6_OneActionPerSevereFailure ==
    (hPass.auto /\ hPass.pc \in {"done", "aborted"}) =>
        \A i \in 1..Len(hPass.failures) :
            Executions(i) = IF IsSevere(hPass.failures[i]) THEN 1 ELSE 0

\* C7: the status of an action object only moves pending -> executing ->
\* completed | failed: once completed or failed, no step changes it, a second
\* executeHealingAction call on the object included.
C7_TerminalStatusIsFinal ==
    [][(hAction'.n = hAction.n /\ hAction.status \in {"completed", "failed"})
          => hAction'.status = hAction.status]_vars

\* C15: when the primitive throws, the action becomes failed with its errorMessage
\* set and sendCriticalAlert is called; a failed action of the agent stays failed and
\* its primitive is not invoked again, and a cycle begins at most one action per
\* failure.
C15_FailedWithoutRetry ==
    [][/\ (hPass.pc = "primitive" /\ hPass'.pc \notin {"primitive", "recoveryAlert"})
          => /\ hPass'.pc = "criticalAlert"
             /\ hAction'.n = hAction.n
             /\ hAction'.status = "failed"
             /\ hAction'.errorMessage = "primitive"
       /\ (hAction.status = "failed" /\ hAction'.n = hAction.n)
          => /\ hAction'.status = "failed"
             /\ hAction'.errorMessage = hAction.errorMessage
             /\ hPass'.pc # "primitive"
       /\ \A i \in 1..Len(hPass'.failures) :
             Cardinality({k \in 1..Len(hPass'.executed) : hPass'.executed[k] = i}) <= 1
      ]_vars

\* C15 witness: an auto-recovery cycle went on to a later failure after the primitive
\* of an earlier action threw, which left that action failed and stored
C15_Witness ==
    /\ hPass.auto
    /\ Len(hPass.executed) = 2
    /\ \E a \in actionStore :
         /\ a.n # hAction.n
         /\ a.status = "failed"
         /\ a.errorMessage = "primitive"

\* C16: getHealthStatus() never rejects: whatever its checks and collectors meet, the
\* call returns a HealthStatus.
C16_StatusNeverRaises == sPass.pc # "rejected"


(***************************************************************************)
(* Claims about the timers of the agents.                                  *)
(***************************************************************************)
\* the bodies of performHealthCheck awaiting the probe of the i-th component on a
\* breaker that is the agent's own
Probing(bodies, i) == CopiesIn([idx |-> i, stale |-> FALSE], bodies)

\* C17: while the circuit breaker of a component is open, the periodic health check
\* does not call that component: no step issues checkComponentHealth(c) while the
\* breaker of c is open.
C17_OpenBreakerShortCircuits ==
    [][\A i \in 1..Len(Components) :
         Probing(hcBodies', i) > Probing(hcBodies, i)
           => circuitBreakers'[Components[i]].state # "open"]_vars

\* C18: two firings of the same concern never overlap: at most one callback of a
\* concern's timer is in flight at any time.
C18_FiringsDoNotOverlap ==
    \A concern \in MonitoringConcernSet : mBodies[concern] <= 1

\* C19: if stop() is called while a timer body is awaiting an external call, the
\* body performs no further side effect once the call resolves: while the agent
\* stays stopped and no time passes, no step updates a circuit breaker.
C19_StoppedBodyHasNoEffect ==
    [][(~hIsRunning /\ ~hIsRunning' /\ now' = now)
         => circuitBreakers' = circuitBreakers]_vars

\* C20: an error raised inside a timer body is caught and logged: the step in which
\* generateDemandPredictions() fails cancels no timer of the agent and leaves
\* isRunning as it was, and once the failed body has returned the prediction timer,
\* still armed, can fire the body again.
C20_BodyErrorIsContained ==
    /\ [][(pPass'.failed /\ ~pPass.failed)
            => (oIntervals' = oIntervals /\ oIsRunning' = oIsRunning)]_vars
    /\ []((pPass.failed /\ pPass.pc = "done" /\ HasTimer(oIntervals, "prediction")
             /\ oPasses < MaxOptPasses)
            => ENABLED PredictionFire)

\* C20 witness: a body of the prediction concern has failed while the agent runs with
\* its three timers armed, and a firing is still to come
C20_Witness ==
    /\ pPass.failed
    /\ pPass.pc = "done"
    /\ oIsRunning
    /\ \A k \in 1..Len(OptimizationConcerns) : HasTimer(oIntervals, OptimizationConcerns[k])
    /\ oPasses < MaxOptPasses

(***************************************************************************)
(* Claims about error isolation and step order in a detection cycle.       *)
(***************************************************************************)
\* the failures of the cycle for which the Store holds no record
Unrecorded ==
    {i \in 1..Len(hPass.failures) :
        ~\E r \in failureStore : r.id = hPass.failures[i].id}

\* the handling loop of detectFailures is over
HandlingOver == hPass.pc \notin {"idle", "detect", "getFailure", "storeFailure", "failureAlert"}

\* C21: an error while handling one Failure never prevents the remaining Failures of
\* the cycle from being recorded: once the handling loop is over, the failures left
\* without a record are no more than the errors that were thrown.
C21_ErrorLosesOnlyItsFailure ==
    HandlingOver => Cardinality(Unrecorded) <= faults

\* C22: within one firing of auto-recovery the steps run in the order detect,
\* classify, act, alert, persist: while the alert of a Failure is still to be sent,
\* the Store holds no record of that Failure.
C22_NoRecordBeforeItsAlert ==
    (hPass.auto /\ hPass.pc = "failureAlert") =>
        ~\E r \in failureStore : r.id = hPass.failures[hPass.idx].id

(***************************************************************************)
(* Claims about anomalies and alert delivery.                              *)
(***************************************************************************)
\* C23: every Anomaly a detectAnomalies() pass returns is handed to the Store,
\* whatever its severity and whatever happened to the alerts of the pass: when the
\* pass has returned, storeAnomaly was called for each of its anomalies.
C23_EveryAnomalyHandedToStore ==
    aPass.pc = "done" => aPass.handed = 1..Len(aPass.anomalies)

\* C24: alert delivery is fire-and-forget: an AlertSink call that is slow or never
\* completes does not block the pass, so a detectAnomalies() pass that has issued an
\* alert still returns when every other call completes.
C24_PassCompletesDespiteAlert ==
    (aPass.pc = "alert") ~> (aPass.pc = "done")

(***************************************************************************)
(* Claims about the lifetime of the breakers and about start().            *)
(***************************************************************************)
\* C25: the CircuitBreakerState of a component lives as long as the process: once
\* the breaker exists, it changes only in a step that records a probe result on it
\* or in which time passes (the reset timeout), a stop() followed by start()
\* included.
C25_BreakerStateOutlivesRestart ==
    [][\A c \in ComponentSet :
         (circuitBreakers[c] # NoBreaker /\ circuitBreakers'[c] # circuitBreakers[c])
           => (RecordedOn(c, TRUE) \/ RecordedOn(c, FALSE) \/ now' # now)]_vars

\* C28: if start() fails during initialization, the agent is left stopped with no
\* timers scheduled: after the step in which a start() call ends without scheduling
\* its loops, isRunning is false and no timer of that call exists.
C28_FailedStartLeavesStopped ==
    [][(oStarting' < oStarting /\ oIntervals' = oIntervals)
         => (~oIsRunning' /\ oIntervals' = <<>>)]_vars

(***************************************************************************)
(* Claims about recommendations and configuration.                         *)
(***************************************************************************)
PriorityRank(priority) ==
    CASE priority = "low" -> 1
      [] priority = "medium" -> 2
      [] priority = "high" -> 3
      [] priority = "critical" -> 4

\* C26: within one Recommendation type the priority is monotonic in
\* confidence x impact.cost: of two cost_saving recommendations, the one with the
\* larger confidence x impact.cost never has the lower priority.
C26_PriorityMonotonic ==
    callResult.done =>
        \A j, k \in 1..Len(callResult.recommendations) :
            LET r1 == callResult.recommendations[j]
                r2 == callResult.recommendations[k]
            IN (r1.confidence * r1.cost > r2.confidence * r2.cost)
                 => PriorityRank(r1.priority) >= PriorityRank(r2.priority)

\* C27: the prediction-confidence cutoff is the configured one: a pass keeps exactly
\* the predictions whose confidence is above thresholds.predictionAccuracy, so of
\* two agents that differ only in that threshold the one with the lower threshold
\* keeps a prediction between the two and the other discards it.
C27_CutoffFromConfig ==
    Returned(pPass) =
        SeenWith(pPass, LAMBDA r : r.confidence > oConfig.predictionAccuracy)

(***************************************************************************)
(* Claims about the login nonce.                                           *)
(***************************************************************************)
\* the login requests that succeeded with nonce n
SucceededWith(n) == {r \in 1..MaxLogins : logins[r].pc = "succeeded" /\ logins[r].nonce = n}

\* C29: a login nonce is single-use: for one issued nonce at most one login request
\* succeeds, however concurrent requests interleave, and after a successful login
\* the nonce is no longer stored.
C29_NonceSingleUse ==
    \A n \in 1..MaxNonces :
        /\ Cardinality(SucceededWith(n)) <= 1
        /\ SucceededWith(n) # {} => \A key \in Addresses : nStore[key] # n

(***************************************************************************)
(* Claims about the aggregate health status.                               *)
(***************************************************************************)
\* the components of the call whose check reported status
With(status) == {c \in ComponentSet : sPass.components[c] = status}

\* C30: the aggregate status of getHealthStatus() is a function of the four component
\* statuses only: healthy iff all four are up, critical iff at least half of them
\* are down, degraded in every other case.
C30_AggregateStatus ==
    sPass.pc \in {"metrics", "returned"} =>
        /\ sPass.status \in {"healthy", "degraded", "critical"}
        /\ sPass.status = "healthy" <=> With("up") = ComponentSet
        /\ sPass.status = "critical"
             <=> 2 * Cardinality(With("down")) >= Cardinality(ComponentSet)
        /\ sPass.status = "degraded"
             <=> /\ With("up") # ComponentSet
                 /\ 2 * Cardinality(With("down")) < Cardinality(ComponentSet)

\* C30 witness: a call returned critical with exactly half of the components down
C30_Witness ==
    /\ sPass.pc = "returned"
    /\ sPass.status = "critical"
    /\ 2 * Cardinality(With("down")) = Cardinality(ComponentSet)

====
